---- MODULE Spec2Model ----
(***************************************************************************)
(* streamAnswer (src/app/lib/vertex-ai.ts): the generator that reads the   *)
(* Vertex AI streamAnswer response body chunk by chunk, cuts it into       *)
(* top-level JSON objects with a brace-depth scanner and reconciles the    *)
(* cumulative answer snapshots into chunk / metadata / done events.        *)
(*                                                                         *)
(* Text is a sequence of one-character strings.  The wire format keeps the *)
(* JSON structure of VertexAnswerResponse (nested objects, quoted strings, *)
(* backslash escapes) and abbreviates key names and state words, which the *)
(* scanner treats like any other ordinary character:                       *)
(*   answer -> a, state -> s, answerText -> t, relatedQuestions -> q,      *)
(*   references -> r, unstructuredDocumentInfo -> u, chunkInfo -> c,       *)
(*   title -> i, session -> n, name -> m, "/sessions/" -> "/",             *)
(*   STREAMING -> ST, SUCCEEDED -> SU, FAILED -> FA.                       *)
(***************************************************************************)
EXTENDS Integers, Sequences, FiniteSets, TLC

VARIABLES sent, separator, noise, body, pos, pc, cancelled, buffer, lastAnswerText,
          extractedSessionId, relatedQuestions, references, events, trace

(* useChat (src/app/hooks/useChat.ts): the React state of the hook, the ref
   to the current AbortController, and the sendMessage calls with their
   locals and their responses from the chat route (src/unnamed/part_010) *)
VARIABLES messages, isLoading, error, sessionId, abortControllerRef, requests,
          onErrorCalls

(* the chat route (src/unnamed/part_010), the ref of useKetcherAPI with the
   calls made through it, and one call of parseCitations *)
VARIABLES route, ketcher, citation

\* one run of streamAnswer
streamVars == <<sent, separator, noise, body, pos, pc, cancelled, buffer, lastAnswerText,
                extractedSessionId, relatedQuestions, references, events, trace>>

\* the hook
chatVars == <<messages, isLoading, error, sessionId, abortControllerRef, requests,
              onErrorCalls>>

\* the route, the Ketcher hook, the citation parser
otherVars == <<route, ketcher, citation>>

vars == <<streamVars, chatVars, otherVars>>

\* the response body and what it was made of: never changed by the program
upstreamVars == <<sent, separator, noise, body>>

(* ------------------------------ bounds -------------------------------- *)

\* most snapshots in one response body of the reconciler family
MaxSnapshots == 3

\* most objects in one response body of the scanner family
MaxObjects == 2

\* largest chunk the reader hands over, short of "all the rest"
MaxChunk == 3

\* most sendMessage calls on one hook
MaxRequests == 2

\* longest text handed to parseCitations
MaxText == 5

\* most calls made through one useKetcherAPI
MaxCalls == 2

(* ---------------------------- characters ------------------------------ *)

LB == "{"

RB == "}"

QT == "\""

BSL == "\\"

None == "none"

(* JS String.prototype.slice(a, b) and slice(a) on 0-based offsets *)
Slice(s, a, b) == SubSeq(s, a + 1, b)

SliceFrom(s, a) == SubSeq(s, a + 1, Len(s))

(* JS String.prototype.startsWith *)
StartsWith(s, p) == Len(p) <= Len(s) /\ SubSeq(s, 1, Len(p)) = p

(* ------------------- upstream encoding (JSON.stringify) ---------------- *)

RECURSIVE Escape(_)
Escape(cs) ==
  IF cs = <<>> THEN <<>>
  ELSE (IF Head(cs) \in {QT, BSL} THEN <<BSL, Head(cs)>> ELSE <<Head(cs)>>)
       \o Escape(Tail(cs))

Str(cs) == <<QT>> \o Escape(cs) \o <<QT>>

Key(k) == <<QT, k, QT, ":">>

RECURSIVE JoinComma(_)
JoinComma(fs) ==
  IF fs = <<>> THEN <<>>
  ELSE IF Len(fs) = 1 THEN fs[1]
  ELSE fs[1] \o <<",">> \o JoinComma(Tail(fs))

Obj(fs) == <<LB>> \o JoinComma(fs) \o <<RB>>

Arr(fs) == <<"[">> \o JoinComma(fs) \o <<"]">>

StateWire(s) ==
  CASE s = "STREAMING" -> <<"S", "T">>
    [] s = "SUCCEEDED" -> <<"S", "U">>
    [] OTHER -> <<"F", "A">>

RefWire(ref) ==
  CASE ref.kind = "unstructured" -> Obj(<<Key("u") \o Obj(<<Key("i") \o Str(ref.title)>>)>>)
    [] ref.kind = "chunk" -> Obj(<<Key("c") \o Obj(<<Key("i") \o Str(ref.title)>>)>>)
    [] OTHER -> Obj(<<>>)

SeqMap(Op(_), s) == [i \in 1..Len(s) |-> Op(s[i])]

(* one snapshot as the service writes it: fields not in snap.present are
   left out of the object *)
Stringify(snap) ==
  LET has(f) == f \in snap.present
      answerFields ==
        (IF has("state") THEN <<Key("s") \o Str(StateWire(snap.state))>> ELSE <<>>)
        \o (IF has("answerText") THEN <<Key("t") \o Str(snap.answerText)>> ELSE <<>>)
        \o (IF has("relatedQuestions")
            THEN <<Key("q") \o Arr(SeqMap(Str, snap.relatedQuestions))>> ELSE <<>>)
        \o (IF has("references")
            THEN <<Key("r") \o Arr(SeqMap(RefWire, snap.references))>> ELSE <<>>)
      top ==
        (IF has("answer") THEN <<Key("a") \o Obj(answerFields)>> ELSE <<>>)
        \o (IF has("session")
            THEN <<Key("n") \o Obj(<<Key("m") \o Str(snap.session)>>)>> ELSE <<>>)
  IN Obj(top)

(* ----------------------- the snapshots of the model -------------------- *)

Snapshot(present, state, answerText, rq, refs, session) ==
  [present |-> present, state |-> state, answerText |-> answerText,
   relatedQuestions |-> rq, references |-> refs, session |-> session]

Answer(state, answerText) ==
  Snapshot({"answer", "state", "answerText"}, state, answerText, <<>>, <<>>, <<>>)

\* the reconciler family: a chain of extensions (a, ab, abb), a final text
\* (ba) that differs from ab at equal length, is longer than a without
\* extending it and is shorter than abb, and an extension of it (bab)
PlainSnapshots ==
  {Answer("STREAMING", <<"a">>), Answer("STREAMING", <<"a", "b">>),
   Answer("SUCCEEDED", <<"b", "a">>), Answer("SUCCEEDED", <<"a", "b", "b">>),
   Answer("STREAMING", <<"b", "a", "b">>)}

\* answer texts of the scanner family: braces, an escaped quote and an
\* escaped backslash inside the string value
TrickyTexts == {<<"a", RB>>, <<LB, QT, RB>>, <<BSL>>}

Ref(kind, title) == [kind |-> kind, title |-> title]

\* every field present: objects nested three deep under the top-level one
FullSnapshot ==
  Snapshot({"answer", "state", "answerText", "relatedQuestions", "references", "session"},
           "SUCCEEDED", <<"a", "b">>, << <<"q">> >>,
           <<Ref("unstructured", <<"x">>), Ref("chunk", <<"y">>), Ref("none", <<>>)>>,
           <<"p", "/", "1">>)

EmptyObject == Snapshot({}, None, <<>>, <<>>, <<>>, <<>>)

TrickySnapshots == {Answer("STREAMING", t) : t \in TrickyTexts} \cup {FullSnapshot}

\* the well-formed snapshots of the bodies of a service at fault
FaultSnapshots == {Answer("STREAMING", <<"a">>), FullSnapshot}

\* two brace-balanced spans that are not JSON, back to back: {x} and {"}"{}}
BadSpans == <<LB, "x", RB>> \o <<LB, QT, RB, QT, LB, RB, RB>>

\* an object cut off by the end of the response: after its first brace,
\* inside its last string value, and in front of its last brace
Truncations(snap) ==
  LET whole == Stringify(snap)
  IN {SubSeq(whole, 1, n) : n \in {1, Len(whole) - 3, Len(whole) - 1}}

\* what may stand in front of a snapshot, and what may end the body
NoiseTexts == {<<>>, BadSpans}

TailTexts == {<<>>} \cup Truncations(Answer("STREAMING", <<"a">>))

\* the metadata family: a session alone; related questions on a streaming
\* answer; empty lists and an empty session name; references of which one
\* has neither unstructuredDocumentInfo nor chunkInfo; references of which
\* none has; and the snapshot with every field
MetaSnapshots ==
  {Snapshot({"session"}, None, <<>>, <<>>, <<>>, <<"p", "/", "2">>),
   Snapshot({"answer", "state", "answerText", "relatedQuestions"},
            "STREAMING", <<"a">>, << <<"r">>, <<"s">> >>, <<>>, <<>>),
   Snapshot({"answer", "relatedQuestions", "references", "session"},
            None, <<>>, <<>>, <<>>, <<>>),
   Snapshot({"answer", "references"}, None, <<>>, <<>>,
            <<Ref("none", <<>>), Ref("chunk", <<"z">>)>>, <<>>),
   Snapshot({"answer", "references"}, None, <<>>, <<>>, <<Ref("none", <<>>)>>, <<>>),
   FullSnapshot}

\* snapshots that bring no text to show but bring metadata: a state that
\* is neither STREAMING nor SUCCEEDED, no answerText, an empty answerText
QuietSnapshots ==
  {Snapshot({"answer", "state", "answerText", "relatedQuestions", "references", "session"},
            "FAILED", <<"a", "b", "b">>, << <<"r">> >>, <<Ref("chunk", <<"z">>)>>,
            <<"p", "/", "3">>),
   Snapshot({"answer", "state", "relatedQuestions", "references", "session"},
            "STREAMING", <<>>, << <<"s">> >>,
            <<Ref("none", <<>>), Ref("unstructured", <<"x">>)>>, <<"p", "/", "4">>),
   Snapshot({"answer", "state", "answerText", "relatedQuestions", "session"},
            "SUCCEEDED", <<>>, << <<"q">>, <<"r">> >>, <<>>, <<"p", "/", "5">>)}

\* the quiet snapshots among snapshots that bring text
QuietFamily == QuietSnapshots \cup {Answer("STREAMING", <<"a">>), FullSnapshot}

AllSnapshots == PlainSnapshots \cup TrickySnapshots \cup MetaSnapshots \cup QuietSnapshots

(* what stands after each object of a body: nothing, or the comma of a
   streamed JSON array *)
Separators == {<<>>, <<",">>}

(* the sequences of at most n snapshots drawn from snaps *)
RECURSIVE SnapshotSeqs(_, _)
SnapshotSeqs(snaps, n) ==
  IF n = 0 THEN {<<>>}
  ELSE LET shorter == SnapshotSeqs(snaps, n - 1)
       IN shorter \cup {Append(q, s) : q \in shorter, s \in snaps}

(* the response body: every snapshot encoded and followed by sep *)
RECURSIVE EncodeBody(_, _)
EncodeBody(snaps, sep) ==
  IF snaps = <<>> THEN <<>>
  ELSE Stringify(Head(snaps)) \o sep \o EncodeBody(Tail(snaps), sep)

(* a response body of a service at fault: texts[i] stands in front of the
   i-th snapshot and the last text stands behind them all *)
RECURSIVE EncodeNoisy(_, _, _)
EncodeNoisy(snaps, sep, texts) ==
  IF snaps = <<>> THEN Head(texts)
  ELSE Head(texts) \o Stringify(Head(snaps)) \o sep
       \o EncodeNoisy(Tail(snaps), sep, Tail(texts))

(* ------------------------------ JSON.parse ----------------------------- *)

(* JSON.parse on the strings the scanner can cut out of a body: it succeeds
   exactly on the encoding of a snapshot and gives that snapshot back; on
   any other string it throws *)
ParseTable ==
  [j \in {Stringify(s) : s \in AllSnapshots} |->
     CHOOSE s \in AllSnapshots : Stringify(s) = j]

JSONParse(jsonStr) ==
  IF jsonStr \in DOMAIN ParseTable
  THEN [ok |-> TRUE, value |-> ParseTable[jsonStr]]
  ELSE [ok |-> FALSE, value |-> EmptyObject]

(* --------------------------- output events ---------------------------- *)

ChunkEvent(content, replace) ==
  [type |-> "chunk", content |-> content, replace |-> replace]

MetadataEvent(sid, rq, refs) ==
  [type |-> "metadata", sessionId |-> sid, relatedQuestions |-> rq,
   references |-> refs]

DoneEvent == [type |-> "done"]

(* ------------------- reconciling one parsed snapshot ------------------- *)

\* null, and the empty string that `|| null` turns into null
NullId == <<>>

(* name.split("/sessions/")[1] || null, "/" standing for "/sessions/" *)
RECURSIVE UpToSlash(_)
UpToSlash(cs) ==
  IF cs = <<>> \/ Head(cs) = "/" THEN <<>> ELSE <<Head(cs)>> \o UpToSlash(Tail(cs))

RECURSIVE AfterSlash(_)
AfterSlash(cs) ==
  IF cs = <<>> THEN <<>>
  ELSE IF Head(cs) = "/" THEN Tail(cs) ELSE AfterSlash(Tail(cs))

SessionIdOf(name) == UpToSlash(AfterSlash(name))

(* the loop over parsed.answer.references: one entry per reference that has
   unstructuredDocumentInfo or chunkInfo, the others are left out *)
RECURSIVE ExtractReferences(_)
ExtractReferences(refs) ==
  IF refs = <<>> THEN <<>>
  ELSE (IF Head(refs).kind \in {"unstructured", "chunk"}
        THEN <<[title |-> Head(refs).title]>> ELSE <<>>)
       \o ExtractReferences(Tail(refs))

AnswerState(parsed) ==
  IF {"answer", "state"} \subseteq parsed.present THEN parsed.state ELSE None

CurrentAnswerText(parsed) ==
  IF {"answer", "answerText"} \subseteq parsed.present THEN parsed.answerText ELSE <<>>

(* a slip in the STREAMING branch: the delta is cut off by length alone,
   without asking whether the new text starts with the old one *)
ChunksForLengthOnly(answerState, cur, last) ==
  IF answerState = "SUCCEEDED" /\ cur # <<>>
  THEN IF Len(cur) > Len(last)
       THEN IF StartsWith(cur, last)
            THEN <<ChunkEvent(SliceFrom(cur, Len(last)), FALSE)>>
            ELSE <<ChunkEvent(cur, TRUE)>>
       ELSE <<>>
  ELSE IF answerState = "STREAMING" /\ cur # <<>>
  THEN IF Len(cur) > Len(last)
       THEN <<ChunkEvent(SliceFrom(cur, Len(last)), FALSE)>>
       ELSE IF last = <<>> /\ cur # <<>>
       THEN <<ChunkEvent(cur, FALSE)>>
       ELSE <<>>
  ELSE <<>>

(* a slip in both branches: the whole new text is sent where the delta
   should be *)
ChunksForWholeText(answerState, cur, last) ==
  IF answerState = "SUCCEEDED" /\ cur # <<>>
  THEN IF Len(cur) > Len(last)
       THEN IF StartsWith(cur, last)
            THEN <<ChunkEvent(cur, FALSE)>>
            ELSE <<ChunkEvent(cur, TRUE)>>
       ELSE <<>>
  ELSE IF answerState = "STREAMING" /\ cur # <<>>
  THEN IF Len(cur) > Len(last) /\ StartsWith(cur, last)
       THEN <<ChunkEvent(cur, FALSE)>>
       ELSE IF last = <<>> /\ cur # <<>>
       THEN <<ChunkEvent(cur, FALSE)>>
       ELSE <<>>
  ELSE <<>>

(* a slip in the STREAMING branch: a text that does not build on what was
   sent is sent as a replacement, as the SUCCEEDED branch does *)
ChunksForStreamingReplace(answerState, cur, last) ==
  IF answerState = "SUCCEEDED" /\ cur # <<>>
  THEN IF Len(cur) > Len(last)
       THEN IF StartsWith(cur, last)
            THEN <<ChunkEvent(SliceFrom(cur, Len(last)), FALSE)>>
            ELSE <<ChunkEvent(cur, TRUE)>>
       ELSE <<>>
  ELSE IF answerState = "STREAMING" /\ cur # <<>>
  THEN IF Len(cur) > Len(last) /\ StartsWith(cur, last)
       THEN <<ChunkEvent(SliceFrom(cur, Len(last)), FALSE)>>
       ELSE IF last = <<>> /\ cur # <<>>
       THEN <<ChunkEvent(cur, FALSE)>>
       ELSE IF cur # last THEN <<ChunkEvent(cur, TRUE)>>
       ELSE <<>>
  ELSE <<>>

(* a slip in the SUCCEEDED branch: a final text that differs from what was
   sent is sent as a replacement whatever its length *)
ChunksForReplaceAnyLength(answerState, cur, last) ==
  IF answerState = "SUCCEEDED" /\ cur # <<>>
  THEN IF Len(cur) > Len(last) /\ StartsWith(cur, last)
       THEN <<ChunkEvent(SliceFrom(cur, Len(last)), FALSE)>>
       ELSE IF cur # last THEN <<ChunkEvent(cur, TRUE)>>
       ELSE <<>>
  ELSE IF answerState = "STREAMING" /\ cur # <<>>
  THEN IF Len(cur) > Len(last) /\ StartsWith(cur, last)
       THEN <<ChunkEvent(SliceFrom(cur, Len(last)), FALSE)>>
       ELSE IF last = <<>> /\ cur # <<>>
       THEN <<ChunkEvent(cur, FALSE)>>
       ELSE <<>>
  ELSE <<>>

(* the chunk events one snapshot yields, given lastAnswerText *)
ChunksFor(answerState, cur, last) ==
  IF answerState = "SUCCEEDED" /\ cur # <<>>
  THEN IF Len(cur) > Len(last)
       THEN IF StartsWith(cur, last)
            THEN <<ChunkEvent(SliceFrom(cur, Len(last)), FALSE)>>
            ELSE <<ChunkEvent(cur, TRUE)>>
       ELSE <<>>
  ELSE IF answerState = "STREAMING" /\ cur # <<>>
  THEN IF Len(cur) > Len(last) /\ StartsWith(cur, last)
       THEN <<ChunkEvent(SliceFrom(cur, Len(last)), FALSE)>>
       ELSE IF last = <<>> /\ cur # <<>>
       THEN <<ChunkEvent(cur, FALSE)>>
       ELSE <<>>
  ELSE <<>>

(* lastAnswerText after the snapshot *)
NextLastAnswerText(answerState, cur, last) ==
  IF answerState = "SUCCEEDED" /\ cur # <<>>
  THEN IF Len(cur) > Len(last) THEN cur ELSE last
  ELSE IF answerState = "STREAMING" /\ cur # <<>>
  THEN IF Len(cur) > Len(last) /\ StartsWith(cur, last) THEN cur
       ELSE IF last = <<>> /\ cur # <<>> THEN cur
       ELSE last
  ELSE last

(* a slip in the two metadata assignments: the new list is put behind the
   buffered one *)
ReconcileMerging(r, parsed) ==
  LET answerState == AnswerState(parsed)
      cur == CurrentAnswerText(parsed)
      hasName == "session" \in parsed.present /\ parsed.session # <<>>
      hasRq == {"answer", "relatedQuestions"} \subseteq parsed.present
               /\ Len(parsed.relatedQuestions) > 0
      hasRefs == {"answer", "references"} \subseteq parsed.present
                 /\ Len(parsed.references) > 0
  IN [r |-> [lastAnswerText |-> NextLastAnswerText(answerState, cur, r.lastAnswerText),
             extractedSessionId |->
               IF hasName THEN SessionIdOf(parsed.session) ELSE r.extractedSessionId,
             relatedQuestions |->
               IF hasRq THEN r.relatedQuestions \o parsed.relatedQuestions
               ELSE r.relatedQuestions,
             references |->
               IF hasRefs THEN r.references \o ExtractReferences(parsed.references)
               ELSE r.references],
      out |-> ChunksFor(answerState, cur, r.lastAnswerText)]

(* a slip in the try block: a snapshot that has no text to show is left
   behind at once, its session and metadata with it *)
ReconcileSkippingQuiet(r, parsed) ==
  LET answerState == AnswerState(parsed)
      cur == CurrentAnswerText(parsed)
      quiet == answerState \notin {"STREAMING", "SUCCEEDED"} \/ cur = <<>>
      hasName == ~quiet /\ "session" \in parsed.present /\ parsed.session # <<>>
      hasRq == ~quiet /\ {"answer", "relatedQuestions"} \subseteq parsed.present
               /\ Len(parsed.relatedQuestions) > 0
      hasRefs == ~quiet /\ {"answer", "references"} \subseteq parsed.present
                 /\ Len(parsed.references) > 0
  IN [r |-> [lastAnswerText |-> NextLastAnswerText(answerState, cur, r.lastAnswerText),
             extractedSessionId |->
               IF hasName THEN SessionIdOf(parsed.session) ELSE r.extractedSessionId,
             relatedQuestions |->
               IF hasRq THEN parsed.relatedQuestions ELSE r.relatedQuestions,
             references |->
               IF hasRefs THEN ExtractReferences(parsed.references) ELSE r.references],
      out |-> ChunksFor(answerState, cur, r.lastAnswerText)]

(* the body of the try block: r holds the generator's locals *)
Reconcile(r, parsed) ==
  LET answerState == AnswerState(parsed)
      cur == CurrentAnswerText(parsed)
      hasName == "session" \in parsed.present /\ parsed.session # <<>>
      hasRq == {"answer", "relatedQuestions"} \subseteq parsed.present
               /\ Len(parsed.relatedQuestions) > 0
      hasRefs == {"answer", "references"} \subseteq parsed.present
                 /\ Len(parsed.references) > 0
  IN [r |-> [lastAnswerText |-> NextLastAnswerText(answerState, cur, r.lastAnswerText),
             extractedSessionId |->
               IF hasName THEN SessionIdOf(parsed.session) ELSE r.extractedSessionId,
             relatedQuestions |->
               IF hasRq THEN parsed.relatedQuestions ELSE r.relatedQuestions,
             references |->
               IF hasRefs THEN ExtractReferences(parsed.references) ELSE r.references],
      out |-> ChunksFor(answerState, cur, r.lastAnswerText)]

(* a slip in the catch block: a string that does not parse is passed on as
   plain text, the way the consumer treats a line that does not parse *)
ProcessObjectJunkAsText(r, jsonStr) ==
  LET p == JSONParse(jsonStr)
  IN IF p.ok THEN Reconcile(r, p.value)
     ELSE [r |-> r, out |-> <<ChunkEvent(jsonStr, FALSE)>>]

(* a complete object was cut out: parse it, reconcile it, or log and skip *)
ProcessObject(r, jsonStr) ==
  LET p == JSONParse(jsonStr)
  IN IF p.ok THEN Reconcile(r, p.value) ELSE [r |-> r, out |-> <<>>]

(* ------------------------------ the scanner ---------------------------- *)

ScanInit(r) ==
  [startIndex |-> 0, braceCount |-> 0, inString |-> FALSE, escapeNext |-> FALSE,
   objectStart |-> -1, r |-> r, out |-> <<>>, trace |-> <<>>]

(* the object that closes at offset i *)
CompleteObject(sc, buf, i) ==
  LET jsonStr == Slice(buf, sc.objectStart, i + 1)
      res == ProcessObject(sc.r, jsonStr)
  IN [sc EXCEPT !.braceCount = sc.braceCount - 1,
                !.startIndex = i + 1,
                !.objectStart = -1,
                !.r = res.r,
                !.out = sc.out \o res.out,
                !.trace = Append(sc.trace,
                                 [json |-> jsonStr,
                                  before |-> sc.r.lastAnswerText,
                                  after |-> res.r.lastAnswerText,
                                  rBefore |-> sc.r,
                                  rAfter |-> res.r,
                                  out |-> res.out])]

(* a slip in the scanner: the backslash is not looked at, so an escaped
   quote ends the string *)
ScanCharNoEscape(sc, buf, i) ==
  LET char == buf[i + 1]
  IN IF char = QT THEN [sc EXCEPT !.inString = ~sc.inString]
     ELSE IF sc.inString THEN sc
     ELSE IF char = LB
     THEN [sc EXCEPT !.objectStart = IF sc.braceCount = 0 THEN i ELSE sc.objectStart,
                     !.braceCount = sc.braceCount + 1]
     ELSE IF char = RB
     THEN IF sc.braceCount - 1 = 0 /\ sc.objectStart # -1
          THEN CompleteObject(sc, buf, i)
          ELSE [sc EXCEPT !.braceCount = sc.braceCount - 1]
     ELSE sc

(* a slip in the scanner: every opening brace records the start offset,
   not only the one that raises the depth from 0 *)
ScanCharAnyOpen(sc, buf, i) ==
  LET char == buf[i + 1]
  IN IF sc.escapeNext THEN [sc EXCEPT !.escapeNext = FALSE]
     ELSE IF char = BSL /\ sc.inString THEN [sc EXCEPT !.escapeNext = TRUE]
     ELSE IF char = QT THEN [sc EXCEPT !.inString = ~sc.inString]
     ELSE IF sc.inString THEN sc
     ELSE IF char = LB
     THEN [sc EXCEPT !.objectStart = i, !.braceCount = sc.braceCount + 1]
     ELSE IF char = RB
     THEN IF sc.braceCount - 1 = 0 /\ sc.objectStart # -1
          THEN CompleteObject(sc, buf, i)
          ELSE [sc EXCEPT !.braceCount = sc.braceCount - 1]
     ELSE sc

(* one iteration of the for loop, on the character at 0-based offset i *)
ScanChar(sc, buf, i) ==
  LET char == buf[i + 1]
  IN IF sc.escapeNext THEN [sc EXCEPT !.escapeNext = FALSE]
     ELSE IF char = BSL /\ sc.inString THEN [sc EXCEPT !.escapeNext = TRUE]
     ELSE IF char = QT THEN [sc EXCEPT !.inString = ~sc.inString]
     ELSE IF sc.inString THEN sc
     ELSE IF char = LB
     THEN [sc EXCEPT !.objectStart = IF sc.braceCount = 0 THEN i ELSE sc.objectStart,
                     !.braceCount = sc.braceCount + 1]
     ELSE IF char = RB
     THEN IF sc.braceCount - 1 = 0 /\ sc.objectStart # -1
          THEN CompleteObject(sc, buf, i)
          ELSE [sc EXCEPT !.braceCount = sc.braceCount - 1]
     ELSE sc

(* the for loop over the offsets lo .. hi-1, in order.  The range is halved
   and the left half is evaluated (startIndex is never negative) before the
   right half is entered, so that the evaluation depth stays logarithmic *)
RECURSIVE ScanRange(_, _, _, _)
ScanRange(sc, buf, lo, hi) ==
  IF hi <= lo THEN sc
  ELSE IF hi = lo + 1 THEN ScanChar(sc, buf, lo)
  ELSE LET mid == (lo + hi) \div 2
           left == ScanRange(sc, buf, lo, mid)
       IN IF left.startIndex >= 0 THEN ScanRange(left, buf, mid, hi) ELSE left

ScanLoop(sc, buf) == ScanRange(sc, buf, 0, Len(buf))

(* a slip after the scan: once an object was extracted the buffer is
   emptied, and the start of the next object is lost with it *)
KeepUnparsedDropTail(buf, startIndex) ==
  IF startIndex > 0 THEN <<>> ELSE buf

(* a slip after the scan: the cut is made one character too far *)
KeepUnparsedOffByOne(buf, startIndex) ==
  IF startIndex > 0 THEN SliceFrom(buf, startIndex + 1) ELSE buf

(* buffer after the scan: the part behind the last extracted object *)
KeepUnparsed(buf, startIndex) ==
  IF startIndex > 0 THEN SliceFrom(buf, startIndex) ELSE buf

(* ------------------------------- the run ------------------------------- *)

Locals ==
  [lastAnswerText |-> lastAnswerText, extractedSessionId |-> extractedSessionId,
   relatedQuestions |-> relatedQuestions, references |-> references]

\* state.error = null
NullError == <<>>

\* a sendMessage call that was not made yet
IdleRequest ==
  [pc |-> "idle", aborted |-> FALSE, assistantMessageId |-> 0, snaps |-> <<>>,
   thrown |-> FALSE, lines |-> <<>>, delivered |-> 0, buffer |-> <<>>,
   accumulatedContent |-> <<>>, metadata |-> <<>>, sessionId |-> NullId]

(* useState and useRef at the first render of the hook *)
HookInit ==
  /\ messages = <<>>
  /\ isLoading = FALSE
  /\ error = NullError
  /\ sessionId = NullId
  /\ abortControllerRef = 0
  /\ requests = [r \in 1..MaxRequests |-> IdleRequest]
  /\ onErrorCalls = 0

\* no request at the route, useRef(null) and no call made, no text parsed
IdleRoute == [pc |-> "idle", useVertexAI |-> TRUE, words |-> <<>>, forwarded |-> 0,
              written |-> <<>>]

IdleKetcher == [ketcherRef |-> FALSE, calls |-> <<>>]

IdleCitation == [pc |-> "idle", text |-> <<>>, parts |-> <<>>, lastIndex |-> 0]

InitWith(snapshotSeqs, separators, noiseTexts, tailTexts) ==
  /\ HookInit
  /\ route = IdleRoute
  /\ ketcher = IdleKetcher
  /\ citation = IdleCitation
  /\ sent \in snapshotSeqs
  /\ separator \in separators
  /\ noise \in [1..(Len(sent) + 1) -> noiseTexts \cup tailTexts]
  /\ \A i \in 1..Len(sent) : noise[i] \in noiseTexts
  /\ noise[Len(sent) + 1] \in tailTexts
  /\ body = EncodeNoisy(sent, separator, noise)
  /\ pos = 0
  /\ pc = "reading"
  /\ cancelled = FALSE
  /\ buffer = <<>>
  /\ lastAnswerText = <<>>
  /\ extractedSessionId = NullId
  /\ relatedQuestions = <<>>
  /\ references = <<>>
  /\ events = <<>>
  /\ trace = <<>>

(* the reconciler family of response bodies *)
Init == InitWith(SnapshotSeqs(PlainSnapshots, MaxSnapshots), {<<>>}, {<<>>}, {<<>>})

(* the scanner family of response bodies *)
InitScan == InitWith(SnapshotSeqs(TrickySnapshots, MaxObjects), Separators, {<<>>}, {<<>>})

(* the bodies of a service at fault: malformed spans among the snapshots,
   and an object cut off at the end *)
InitFault == InitWith(SnapshotSeqs(FaultSnapshots, MaxObjects), {<<>>}, NoiseTexts, TailTexts)

(* the metadata family of response bodies *)
InitMeta == InitWith(SnapshotSeqs(MetaSnapshots, MaxObjects), {<<>>}, {<<>>}, {<<>>})

(* the chunk sizes the reader may hand over with pos characters delivered *)
ChunkSizes == {k \in (1..MaxChunk) \cup {Len(body) - pos} : 1 <= k /\ k <= Len(body) - pos}

(* the first object of a scan that yielded an event *)
FirstYield(sc) ==
  CHOOSE f \in 1..Len(sc.trace) :
    /\ sc.trace[f].out # <<>>
    /\ \A g \in 1..(f - 1) : sc.trace[g].out = <<>>

(* reader.read() resolves with a chunk of k characters: append, scan,
   reconcile every object completed, keep the unparsed rest, read again.
   The route forwards each event as it is yielded; once the client is gone
   its enqueue throws at the first event, which ends the for-await loop and
   returns the generator at that yield: the session id of the object is
   already assigned, lastAnswerText and the rest are not, and the buffer is
   still uncut *)
Read(k) ==
  /\ pc = "reading"
  /\ \E buf \in {buffer \o Slice(body, pos, pos + k)} :
     \E sc \in {ScanLoop(ScanInit(Locals), buf)} :
        IF cancelled /\ sc.out # <<>>
        THEN LET f == FirstYield(sc)
             IN /\ buffer' = buf
                /\ lastAnswerText' = sc.trace[f].rBefore.lastAnswerText
                /\ extractedSessionId' = sc.trace[f].rAfter.extractedSessionId
                /\ relatedQuestions' = sc.trace[f].rBefore.relatedQuestions
                /\ references' = sc.trace[f].rBefore.references
                /\ events' = Append(events, sc.trace[f].out[1])
                /\ trace' = trace \o SubSeq(sc.trace, 1, f)
                /\ pc' = "returned"
        ELSE /\ buffer' = KeepUnparsed(buf, sc.startIndex)
             /\ lastAnswerText' = sc.r.lastAnswerText
             /\ extractedSessionId' = sc.r.extractedSessionId
             /\ relatedQuestions' = sc.r.relatedQuestions
             /\ references' = sc.r.references
             /\ events' = events \o sc.out
             /\ trace' = trace \o sc.trace
             /\ pc' = pc
  /\ pos' = pos + k
  /\ UNCHANGED <<chatVars, otherVars, upstreamVars, cancelled>>

(* a slip in the two last yields: done before metadata *)
EndOfStreamDoneFirst(sid, rq, refs) ==
  <<DoneEvent, MetadataEvent(sid, rq, refs)>>

(* the two yields behind the read loop *)
EndOfStream(sid, rq, refs) ==
  <<MetadataEvent(sid, rq, refs), DoneEvent>>

(* a slip at the end of the stream: what is left in the buffer is sent as
   text before the metadata, the way the consumer flushes its last line *)
ReadDoneFlushingBuffer ==
  /\ pc = "reading"
  /\ pos = Len(body)
  /\ events' = events \o (IF buffer = <<>> THEN <<>> ELSE <<ChunkEvent(buffer, FALSE)>>)
                      \o EndOfStream(extractedSessionId, relatedQuestions, references)
  /\ pc' = "done"
  /\ UNCHANGED <<chatVars, otherVars, upstreamVars, pos, cancelled, buffer, lastAnswerText, extractedSessionId,
                 relatedQuestions, references, trace>>

(* reader.read() resolves with done: metadata, then done; once the client
   is gone the route's enqueue throws on the metadata event and the
   generator is returned at that yield *)
ReadDone ==
  /\ pc = "reading"
  /\ pos = Len(body)
  /\ events' = events \o
       (IF cancelled
        THEN <<Head(EndOfStream(extractedSessionId, relatedQuestions, references))>>
        ELSE EndOfStream(extractedSessionId, relatedQuestions, references))
  /\ pc' = IF cancelled THEN "returned" ELSE "done"
  /\ UNCHANGED <<chatVars, otherVars, upstreamVars, pos, cancelled, buffer, lastAnswerText, extractedSessionId,
                 relatedQuestions, references, trace>>

(* reader.read() rejects: the catch block rethrows and the generator ends *)
ReadError ==
  /\ pc = "reading"
  /\ pc' = "failed"
  /\ UNCHANGED <<chatVars, otherVars, upstreamVars, pos, cancelled, buffer, lastAnswerText, extractedSessionId,
                 relatedQuestions, references, events, trace>>

(* the client disconnects, or useChat aborts the request for a newer one:
   the response stream of the route is cancelled.  The route gives its
   ReadableStream no cancel callback and streamAnswer takes no signal, so
   nothing else happens at this moment *)
Cancel ==
  /\ pc = "reading"
  /\ ~cancelled
  /\ cancelled' = TRUE
  /\ UNCHANGED <<chatVars, otherVars, upstreamVars, pos, pc, buffer, lastAnswerText, extractedSessionId,
                 relatedQuestions, references, events, trace>>

Next ==
  \/ \E k \in ChunkSizes : Read(k)
  \/ ReadDone
  \/ ReadError

NextCancel ==
  \/ Next
  \/ Cancel

Spec == Init /\ [][Next]_vars

SpecScan == InitScan /\ [][Next]_vars

SpecFault == InitFault /\ [][Next]_vars

SpecMeta == InitMeta /\ [][Next]_vars

(* requests that may be cancelled at any moment of the read loop *)
InitCancel == InitWith(SnapshotSeqs(PlainSnapshots, MaxObjects), {<<>>}, {<<>>}, {<<>>})

SpecCancel == InitCancel /\ [][NextCancel]_vars

(* ---------------------------- the consumer ---------------------------- *)

(* a slip in the consumer: every content event replaces the text *)
ApplyContentAlwaysReplace(acc, ev) ==
  IF ev.content = <<>> THEN acc ELSE ev.content

(* useChat applies one content event to accumulatedContent: a replace event
   stands for the whole text, any other event is appended *)
ApplyContent(acc, ev) ==
  IF ev.content = <<>> THEN acc
  ELSE IF ev.replace THEN ev.content
  ELSE acc \o ev.content

IsChunk(ev) == ev.type = "chunk"

(* accumulatedContent after the chunk events among evs, in order *)
RECURSIVE Accumulate(_)
Accumulate(evs) ==
  IF evs = <<>> THEN <<>>
  ELSE LET front == SubSeq(evs, 1, Len(evs) - 1)
           ev == evs[Len(evs)]
       IN IF IsChunk(ev) THEN ApplyContent(Accumulate(front), ev) ELSE Accumulate(front)

(* ------------------------- reading the trace --------------------------- *)

(* the snapshot the i-th extracted object was parsed into *)
SnapshotAt(i) == JSONParse(trace[i].json).value

TextAt(i) == CurrentAnswerText(SnapshotAt(i))

StateAt(i) == AnswerState(SnapshotAt(i))

(* the events yielded for the first i extracted objects *)
RECURSIVE EventsUpTo(_)
EventsUpTo(i) == IF i = 0 THEN <<>> ELSE EventsUpTo(i - 1) \o trace[i].out

(* cur has last as a prefix and is longer *)
Extends(cur, last) == Len(cur) > Len(last) /\ SubSeq(cur, 1, Len(last)) = last

(* ------------------------------- claims -------------------------------- *)

(* C1: prefix invariant.  For every chunk emitted without the replace flag,
   the text the consumer has accumulated from the earlier chunks (a replace
   chunk restarting it) followed by this chunk's text is the answerText of
   the snapshot that produced the chunk; and lastAnswerText is at all times
   the text the consumer has accumulated. *)
C1_PrefixInvariant ==
  /\ lastAnswerText = Accumulate(events)
  /\ \A i \in 1..Len(trace) :
       /\ Len(trace[i].out) <= 1
       /\ (trace[i].out # <<>> /\ ~trace[i].out[1].replace)
            => Accumulate(EventsUpTo(i - 1)) \o trace[i].out[1].content = TextAt(i)

(* a run with a replace chunk followed by a delta on top of the replaced text *)
C1_Witness ==
  /\ Len(events) = 3
  /\ ~events[1].replace /\ events[2].replace /\ ~events[3].replace
  /\ lastAnswerText = <<"b", "a", "b">>

(* C3: event ordering.  While the body is read only chunk events have been
   emitted; a run that ended normally has emitted zero or more chunks, then
   one metadata event, then one done event and nothing else; a run that
   ended by a read error has emitted neither metadata nor done. *)
C3_EventOrder ==
  LET n == Len(events)
      chunksOnly(m) == \A i \in 1..m : events[i].type = "chunk"
  IN /\ pc = "reading" => chunksOnly(n)
     /\ pc = "failed" => chunksOnly(n)
     /\ pc = "done" => /\ n >= 2
                       /\ chunksOnly(n - 2)
                       /\ events[n - 1].type = "metadata"
                       /\ events[n].type = "done"

(* a normal end after two chunks *)
C3_Witness ==
  /\ pc = "done"
  /\ Len(events) = 4
  /\ events[1].type = "chunk" /\ events[2].type = "chunk"

(* C4, as claimed: every SUCCEEDED snapshot whose non-empty answerText
   differs from lastAnswerText and is not a longer extension of it yields
   exactly one replace chunk carrying the full answerText. *)
C4_ReplaceWheneverNotExtension ==
  \A i \in 1..Len(trace) :
    (/\ StateAt(i) = "SUCCEEDED"
     /\ TextAt(i) # <<>>
     /\ TextAt(i) # trace[i].before
     /\ ~Extends(TextAt(i), trace[i].before))
      => trace[i].out = <<ChunkEvent(TextAt(i), TRUE)>>

(* C5, as claimed: after every SUCCEEDED snapshot with non-empty answerText
   lastAnswerText is that answerText, so a run that ends after it leaves the
   consumer with the final answerText. *)
C5_LastIsFinalText ==
  /\ \A i \in 1..Len(trace) :
       (StateAt(i) = "SUCCEEDED" /\ TextAt(i) # <<>>) => trace[i].after = TextAt(i)
  /\ (pc = "done" /\ trace # <<>> /\ StateAt(Len(trace)) = "SUCCEEDED"
        /\ TextAt(Len(trace)) # <<>>)
       => Accumulate(events) = TextAt(Len(trace))

(* C6: suffix delta on extension.  A STREAMING or SUCCEEDED snapshot whose
   answerText has lastAnswerText as a prefix and is longer yields exactly
   one chunk without the replace flag whose text, put behind lastAnswerText,
   gives answerText, and lastAnswerText becomes answerText; the snapshots
   a, ab (STREAMING) and abb (SUCCEEDED) yield a, b, b. *)
C6_SuffixDelta ==
  /\ \A i \in 1..Len(trace) :
       (StateAt(i) \in {"STREAMING", "SUCCEEDED"} /\ Extends(TextAt(i), trace[i].before))
         => /\ Len(trace[i].out) = 1
            /\ trace[i].out[1].type = "chunk"
            /\ ~trace[i].out[1].replace
            /\ trace[i].before \o trace[i].out[1].content = TextAt(i)
            /\ trace[i].after = TextAt(i)
  /\ (/\ sent = <<Answer("STREAMING", <<"a">>), Answer("STREAMING", <<"a", "b">>),
                  Answer("SUCCEEDED", <<"a", "b", "b">>)>>
      /\ pos = Len(body))
       => SubSeq(events, 1, 3) = <<ChunkEvent(<<"a">>, FALSE), ChunkEvent(<<"b">>, FALSE),
                                   ChunkEvent(<<"b">>, FALSE)>>

(* the three snapshots of the example, read to the end *)
C6_Witness ==
  /\ sent = <<Answer("STREAMING", <<"a">>), Answer("STREAMING", <<"a", "b">>),
              Answer("SUCCEEDED", <<"a", "b", "b">>)>>
  /\ pc = "done"
  /\ Len(trace) = 3
  /\ Extends(TextAt(3), trace[3].before)

(* C7: a STREAMING snapshot whose non-empty answerText does not extend a
   non-empty lastAnswerText (a different, an equal or a shorter text) yields
   no event and leaves lastAnswerText as it was; no STREAMING snapshot
   yields a replace chunk. *)
C7_StreamingNoOp ==
  \A i \in 1..Len(trace) :
    StateAt(i) = "STREAMING" =>
      /\ (TextAt(i) # <<>> /\ trace[i].before # <<>>
            /\ ~Extends(TextAt(i), trace[i].before))
           => (trace[i].out = <<>> /\ trace[i].after = trace[i].before)
      /\ \A j \in 1..Len(trace[i].out) : ~trace[i].out[j].replace

(* one run with a STREAMING text that is shorter and differs, and one that
   is equal *)
C7_Witness ==
  /\ Len(trace) = 3
  /\ \A i \in 1..3 : StateAt(i) = "STREAMING"
  /\ trace[1].after = <<"b", "a", "b">>
  /\ TextAt(2) = <<"a", "b">>
  /\ TextAt(3) = <<"b", "a", "b">>

(* C8: no regression.  When the answerText of a snapshot strictly extends
   the answerText of the snapshot before it, the text the consumer shows
   after its events is no shorter than the text it showed before them. *)
C8_NoRegression ==
  \A i \in 2..Len(trace) :
    Extends(TextAt(i), TextAt(i - 1))
      => Len(Accumulate(EventsUpTo(i))) >= Len(Accumulate(EventsUpTo(i - 1)))

(* an extending snapshot answered by a delta, and one answered by a replace
   chunk because the consumer holds another text *)
C8_Witness ==
  /\ Len(trace) = 3
  /\ Extends(TextAt(3), TextAt(2))
  /\ trace[3].out # <<>>
  /\ trace[3].out[1].replace

(* ----------------------- reading the response body --------------------- *)

(* the text delivered so far *)
Received == Slice(body, 0, pos)

(* the object strings extracted so far, in order *)
Extracted == [i \in 1..Len(trace) |-> trace[i].json]

InitialLocals ==
  [lastAnswerText |-> <<>>, extractedSessionId |-> NullId,
   relatedQuestions |-> <<>>, references |-> <<>>]

(* the object strings one scan extracts from text arriving as one chunk *)
OneChunk(text) ==
  LET whole == ScanLoop(ScanInit(InitialLocals), text).trace
  IN [i \in 1..Len(whole) |-> whole[i].json]

(* 0-based offsets in body of the '{' that opens the i-th object sent and
   of the character behind the '}' that closes it *)
StartOffset(i) == Len(EncodeBody(SubSeq(sent, 1, i - 1), separator))

EndOffset(i) == StartOffset(i) + Len(Stringify(sent[i]))

(* a brace, a quote or a backslash in the answer text *)
HasSpecial(snap) ==
  \E j \in 1..Len(snap.answerText) : snap.answerText[j] \in {LB, RB, QT, BSL}

(* C2: chunk-boundary independence.  However the text delivered so far was
   cut into chunks, the object strings extracted from it, in order and each
   once, are those extracted when the same text arrives as one chunk. *)
C2_BoundaryIndependence == Extracted = OneChunk(Received)

(* one object extracted, and the next one cut right behind a backslash
   inside its string value *)
C2_Witness ==
  /\ Len(trace) = 1
  /\ buffer # <<>>
  /\ buffer[Len(buffer)] = BSL
  /\ pos < Len(body)

(* C9: string-literal safety.  An object whose answer text holds braces, an
   escaped quote or an escaped backslash is extracted when its closing brace
   has been delivered and not before, as exactly the object that was sent,
   and its answer text is parsed back unchanged. *)
C9_StringLiteralSafety ==
  \A i \in 1..Len(sent) :
    HasSpecial(sent[i]) =>
      /\ pos < EndOffset(i) => Len(trace) < i
      /\ pos >= EndOffset(i) =>
           /\ Len(trace) >= i
           /\ trace[i].json = Stringify(sent[i])
           /\ TextAt(i) = sent[i].answerText

(* both objects of a body extracted, the first holding an escaped quote and
   braces, the second a closing brace in its text *)
C9_Witness ==
  /\ Len(sent) = 2
  /\ sent[1].answerText = <<LB, QT, RB>>
  /\ sent[2].answerText = <<"a", RB>>
  /\ Len(trace) = 2
  /\ pos = Len(body)

(* C10: nested objects.  Every object is extracted as the span of the body
   from the '{' that raised the depth from 0 to 1 through the '}' that
   brought it back to 0, whatever objects are nested in between, and it is
   extracted only once that '}' has been delivered. *)
C10_NestedObjects ==
  /\ Len(trace) = Cardinality({i \in 1..Len(sent) : EndOffset(i) <= pos})
  /\ \A i \in 1..Len(trace) : trace[i].json = Slice(body, StartOffset(i), EndOffset(i))

(* the snapshot with objects nested three deep, extracted behind another *)
C10_Witness ==
  /\ Len(sent) = 2
  /\ sent[2] = FullSnapshot
  /\ Len(trace) = 2
  /\ trace[2].json = Stringify(FullSnapshot)

(* ----------------------- bodies of a service at fault ------------------ *)

(* the trace entries of the objects that parsed *)
Parsed == SelectSeq(trace, LAMBDA e : JSONParse(e.json).ok)

(* 0-based offsets in a body with noise of the '{' that opens the i-th
   snapshot sent and of the character behind the '}' that closes it *)
NoisyStart(i) == Len(EncodeNoisy(SubSeq(sent, 1, i - 1), separator, SubSeq(noise, 1, i)))

NoisyEnd(i) == NoisyStart(i) + Len(Stringify(sent[i]))

(* the snapshots sent whose closing brace has been delivered *)
DeliveredSnapshots ==
  SubSeq(sent, 1, Cardinality({i \in 1..Len(sent) : NoisyEnd(i) <= pos}))

(* the scan of the same snapshots sent back to back with nothing else *)
CleanRun(snaps) == ScanLoop(ScanInit(InitialLocals), EncodeBody(snaps, <<>>))

(* C11: malformed-object recovery.  A brace-balanced span that does not
   parse yields no event and leaves lastAnswerText, the session id, the
   related questions and the references as they were; the objects that
   parsed are, in order, the snapshots whose closing brace was delivered,
   and the chunk events and the locals are those of a body that holds
   these snapshots and no malformed span. *)
C11_MalformedRecovery ==
  /\ \A i \in 1..Len(trace) :
       ~JSONParse(trace[i].json).ok
         => (trace[i].out = <<>> /\ trace[i].rAfter = trace[i].rBefore)
  /\ LET clean == CleanRun(DeliveredSnapshots)
     IN /\ [i \in 1..Len(Parsed) |-> Parsed[i].json]
             = [i \in 1..Len(DeliveredSnapshots) |-> Stringify(DeliveredSnapshots[i])]
        /\ SelectSeq(events, IsChunk) = clean.out
        /\ Locals = clean.r

(* two malformed spans skipped with a text already sent, then a snapshot
   behind them in the buffer reconciled into a delta, read to the end *)
C11_Witness ==
  /\ sent = <<Answer("STREAMING", <<"a">>), FullSnapshot>>
  /\ noise[2] = BadSpans
  /\ Len(trace) = 4
  /\ ~JSONParse(trace[2].json).ok /\ ~JSONParse(trace[3].json).ok
  /\ trace[2].rBefore.lastAnswerText = <<"a">>
  /\ trace[4].out = <<ChunkEvent(<<"b">>, FALSE)>>
  /\ extractedSessionId = <<"1">>
  /\ pc = "done"

(* ------------------------------ metadata ------------------------------- *)

(* the session id of the last of snaps that has a session name *)
RECURSIVE LastSession(_)
LastSession(snaps) ==
  IF snaps = <<>> THEN NullId
  ELSE LET s == snaps[Len(snaps)]
       IN IF "session" \in s.present /\ s.session # <<>>
          THEN SessionIdOf(s.session)
          ELSE LastSession(SubSeq(snaps, 1, Len(snaps) - 1))

(* the related questions of the last of snaps whose list is not empty *)
RECURSIVE LastRelatedQuestions(_)
LastRelatedQuestions(snaps) ==
  IF snaps = <<>> THEN <<>>
  ELSE LET s == snaps[Len(snaps)]
       IN IF {"answer", "relatedQuestions"} \subseteq s.present /\ s.relatedQuestions # <<>>
          THEN s.relatedQuestions
          ELSE LastRelatedQuestions(SubSeq(snaps, 1, Len(snaps) - 1))

(* the references derived from the last of snaps whose list is not empty *)
RECURSIVE LastReferences(_)
LastReferences(snaps) ==
  IF snaps = <<>> THEN <<>>
  ELSE LET s == snaps[Len(snaps)]
       IN IF {"answer", "references"} \subseteq s.present /\ s.references # <<>>
          THEN ExtractReferences(s.references)
          ELSE LastReferences(SubSeq(snaps, 1, Len(snaps) - 1))

(* C12: metadata buffering.  The locals hold the session id of the last
   snapshot extracted that has a session name, the related questions of the
   last whose list is not empty and the references derived from the last
   whose list is not empty (the newer value alone, never joined with the
   older); no metadata event is emitted while the body is read; a run that
   ended normally has emitted exactly one, carrying these values for the
   whole body. *)
C12_MetadataBuffering ==
  LET seen == [i \in 1..Len(trace) |-> SnapshotAt(i)]
      meta == SelectSeq(events, LAMBDA e : e.type = "metadata")
  IN /\ extractedSessionId = LastSession(seen)
     /\ relatedQuestions = LastRelatedQuestions(seen)
     /\ references = LastReferences(seen)
     /\ pc # "done" => meta = <<>>
     /\ pc = "done" => meta = <<MetadataEvent(LastSession(sent), LastRelatedQuestions(sent),
                                              LastReferences(sent))>>

(* every value supplied twice: the metadata event carries those of the
   second snapshot alone *)
C12_Witness ==
  /\ pc = "done"
  /\ Len(sent) = 2
  /\ sent[1] = FullSnapshot
  /\ sent[2].relatedQuestions = << <<"r">>, <<"s">> >>
  /\ events[Len(events) - 1]
       = MetadataEvent(<<"1">>, << <<"r">>, <<"s">> >>,
                       <<[title |-> <<"x">>], [title |-> <<"y">>]>>)

(* ---------------------------- pending buffer --------------------------- *)

(* C13: pending-buffer postcondition.  After every chunk the buffer is the
   received text behind the closing brace of the last object extracted (the
   whole received text while none was extracted); and a chunk whose scan
   completes no object leaves the buffer as the previous buffer followed by
   the chunk. *)
C13_PendingBuffer ==
  /\ [](buffer = SliceFrom(Received, IF trace = <<>> THEN 0 ELSE EndOffset(Len(trace))))
  /\ [][(pos' > pos /\ trace' = trace) => buffer' = buffer \o Slice(body, pos, pos')]_vars

(* one object extracted; the comma behind it and the start of the next
   object are what the buffer keeps *)
C13_Witness ==
  /\ Len(trace) = 1
  /\ separator = <<",">>
  /\ Len(buffer) > 2
  /\ buffer[1] = "," /\ buffer[2] = LB
  /\ pc = "reading"

(* ---------------------------- unclosed object -------------------------- *)

(* the object cut off by the end of the body, and its offset in the body *)
CutObject == noise[Len(sent) + 1]

CutStart == Len(body) - Len(CutObject)

(* C14: unclosed object.  When the body ends in an object that never
   closes, what was delivered of it is the end of the buffer from then on,
   the chunk events are those of the snapshots in front of it alone, the
   end of the stream can always be taken, and the run then ends with the
   metadata and the done event, the cut object still in the buffer. *)
C14_UnclosedObject ==
  CutObject # <<>> =>
    /\ pos > CutStart =>
         /\ Len(buffer) >= pos - CutStart
         /\ SliceFrom(buffer, Len(buffer) - (pos - CutStart)) = Slice(body, CutStart, pos)
    /\ SelectSeq(events, IsChunk) = CleanRun(DeliveredSnapshots).out
    /\ (pc = "reading" /\ pos = Len(body)) => ENABLED ReadDone
    /\ pc = "done" =>
         /\ buffer # <<>>
         /\ Len(events) = Len(CleanRun(sent).out) + 2
         /\ events[Len(events) - 1].type = "metadata"
         /\ events[Len(events)] = DoneEvent

(* the stream closed normally on an object cut inside its last string *)
C14_Witness ==
  /\ pc = "done"
  /\ Len(sent) = 2
  /\ CutObject # <<>>
  /\ CutObject[Len(CutObject)] = "a"
  /\ buffer = CutObject
  /\ Len(events) = 4

(* C15, as claimed: a run ended by a read error has emitted neither a
   metadata nor a done event; and a run whose stream closed while an
   incomplete object was buffered has ended as an error too, with neither
   event. *)
C15_PrematureCloseIsError ==
  LET chunksOnly == \A i \in 1..Len(events) : events[i].type = "chunk"
  IN /\ pc = "failed" => chunksOnly
     /\ (pc # "reading" /\ pos = Len(body) /\ CutObject # <<>>)
          => (pc = "failed" /\ chunksOnly)

(* ------------------------------ cancellation --------------------------- *)

(* the upstream body is released when it ended (the generator then stands
   at or behind the metadata yield) or failed; streamAnswer never calls
   reader.cancel() or releaseLock() and gives fetch no signal *)
TransportReleased ==
  \/ pc \in {"done", "failed"}
  \/ pc = "returned" /\ events[Len(events)].type = "metadata"

(* C16, as claimed: once the request is cancelled every step of the
   generator leaves the read loop (no further reader.read() is issued), the
   generator ends with the upstream transport released, and no done event
   is produced. *)
C16_CancellationStopsReading ==
  /\ [][cancelled => pc' # "reading"]_vars
  /\ []((cancelled /\ pc # "reading") => TransportReleased)
  /\ [](cancelled => \A i \in 1..Len(events) : events[i].type # "done")

(* ------------------------- the chat route (POST) ----------------------- *)

(* the SSE data lines the route writes, as the objects their JSON parses to *)
ContentLine(content, replace) ==
  [kind |-> "content", content |-> content, replace |-> replace]

MetadataLine(ev) ==
  [kind |-> "metadata", sessionId |-> ev.sessionId,
   relatedQuestions |-> ev.relatedQuestions, references |-> ev.references]

ErrorLine(content) == [kind |-> "error", content |-> content]

DoneLine == [kind |-> "[DONE]"]

(* the text of the route's error event for an error with message msg *)
RouteErrorText(msg) ==
  <<"I encountered an error while processing your request: ">> \o msg
    \o <<". Please try again.">>

\* the message of the error streamAnswer rethrows when a read rejects
UpstreamErrorMessage == <<"terminated">>

(* one turn of the for-await loop: the line written for one event *)
ForwardEvent(ev) ==
  IF ev.type = "chunk" /\ ev.content # <<>> THEN <<ContentLine(ev.content, ev.replace)>>
  ELSE IF ev.type = "metadata" THEN <<MetadataLine(ev)>>
  ELSE IF ev.type = "done" THEN <<DoneLine>>
  ELSE <<>>

RECURSIVE ForwardAll(_)
ForwardAll(evs) ==
  IF evs = <<>> THEN <<>> ELSE ForwardEvent(Head(evs)) \o ForwardAll(Tail(evs))

(* the whole response: the events forwarded, and the error event with its
   [DONE] when the generator threw *)
RouteResponse(evs, thrown) ==
  ForwardAll(evs)
    \o (IF thrown THEN <<ErrorLine(RouteErrorText(UpstreamErrorMessage)), DoneLine>>
        ELSE <<>>)

(* the events of a run of streamAnswer over a body of these snapshots that
   ended normally, and of one that a rejected read ended behind them *)
RunOf(snaps, thrown) ==
  LET run == CleanRun(snaps)
  IN IF thrown THEN run.out
     ELSE run.out \o EndOfStream(run.r.extractedSessionId, run.r.relatedQuestions,
                                 run.r.references)

\* the answers of the model: a text replaced by the final one, and a text
\* extended by the final one, which brings metadata
ChatBodies ==
  {<<Answer("STREAMING", <<"a">>), Answer("SUCCEEDED", <<"b", "a">>)>>,
   <<Answer("STREAMING", <<"a">>), FullSnapshot>>}

\* what streamAnswer had read when a read rejected: nothing, one snapshot
ThrownBodies == {<<>>, <<Answer("STREAMING", <<"a">>)>>}

Response(snaps, thrown) ==
  [snaps |-> snaps, thrown |-> thrown,
   lines |-> RouteResponse(RunOf(snaps, thrown), thrown)]

Responses ==
  {Response(b, FALSE) : b \in ChatBodies} \cup {Response(b, TRUE) : b \in ThrownBodies}

(* --------------------------- useChat: sendMessage ---------------------- *)

\* generateId gives every message an id of its own: the r-th call makes
\* the user message 2r-1 and the assistant message 2r
UserMessageId(r) == 2 * r - 1

(* a slip in generateId: an id that does not depend on the call *)
AssistantMessageIdFixed(r) == 2

AssistantMessageId(r) == 2 * r

UserMessage(r) ==
  [id |-> UserMessageId(r), role |-> "user", content |-> <<"question">>,
   isStreaming |-> FALSE, metadata |-> <<>>]

(* the placeholder for the answer *)
AssistantMessage(r) ==
  [id |-> AssistantMessageId(r), role |-> "assistant", content |-> <<>>,
   isStreaming |-> TRUE, metadata |-> <<>>]

(* prev.messages.map((m) => m.id === assistantMessageId ? {...m, ...} : m) *)
SetContent(msgs, id, content) ==
  [i \in 1..Len(msgs) |->
     IF msgs[i].id = id THEN [msgs[i] EXCEPT !.content = content] ELSE msgs[i]]

SetMetadata(msgs, id, metadata) ==
  [i \in 1..Len(msgs) |->
     IF msgs[i].id = id THEN [msgs[i] EXCEPT !.metadata = metadata] ELSE msgs[i]]

SetNotStreaming(msgs, id) ==
  [i \in 1..Len(msgs) |->
     IF msgs[i].id = id THEN [msgs[i] EXCEPT !.isStreaming = FALSE] ELSE msgs[i]]

(* the text the catch block writes into the message *)
CatchErrorText(errorMessage) ==
  <<"Sorry, I encountered an error: ">> \o errorMessage \o <<". Please try again.">>

(* a slip in the catch block: the message is left marked as streaming *)
SetFailedStillStreaming(msgs, id, errorMessage) ==
  [i \in 1..Len(msgs) |->
     IF msgs[i].id = id
     THEN [msgs[i] EXCEPT !.content = CatchErrorText(errorMessage)]
     ELSE msgs[i]]

SetFailed(msgs, id, errorMessage) ==
  [i \in 1..Len(msgs) |->
     IF msgs[i].id = id
     THEN [msgs[i] EXCEPT !.content = CatchErrorText(errorMessage), !.isStreaming = FALSE]
     ELSE msgs[i]]

(* a slip in the content branch: the replace flag is not looked at, as in
   the handling of the last line left in the buffer *)
ApplyLineAlwaysAppend(acc, line) == acc \o line.content

(* accumulatedContent after a content line *)
ApplyLine(acc, line) == ApplyContent(acc, line)

(* one data line of the response: st holds accumulatedContent and metadata
   of the call and the hook state the line may change *)
HandleLine(st, id, line) ==
  IF line.kind = "[DONE]" THEN st
  ELSE IF line.kind = "metadata"
  THEN LET md == <<[sessionId |-> line.sessionId,
                    relatedQuestions |-> line.relatedQuestions,
                    references |-> line.references]>>
       IN [st EXCEPT !.metadata = md,
                     !.sessionId = IF line.sessionId # NullId THEN line.sessionId ELSE @,
                     !.messages = SetMetadata(@, id, md)]
  ELSE IF line.kind = "error"
  THEN LET text == IF line.content # <<>> THEN line.content ELSE <<"An error occurred">>
       IN [st EXCEPT !.accumulatedContent = text,
                     !.messages = SetContent(@, id, text),
                     !.error = text]
  ELSE IF line.content # <<>>
  THEN LET text == ApplyLine(st.accumulatedContent, line)
       IN [st EXCEPT !.accumulatedContent = text, !.messages = SetContent(@, id, text)]
  ELSE st

(* the for loop over the complete lines of one chunk *)
RECURSIVE HandleLines(_, _, _)
HandleLines(st, id, lines) ==
  IF lines = <<>> THEN st
  ELSE HandleLines(HandleLine(st, id, Head(lines)), id, Tail(lines))

\* messages of the errors a fetch can end in: a response that is not ok,
\* and a rejected fetch
FetchErrorMessages == {<<"HTTP error! status: 500">>, <<"Failed to fetch">>}

\* message of the error a rejected read of the response body carries
ReadErrorMessage == <<"network error">>

(* a slip in sendMessage: the callback keeps the state of the first render
   and sends the session id it had then *)
SendMessageStaleSession(r) ==
  /\ requests[r].pc = "idle"
  /\ IF r = 1 THEN TRUE ELSE requests[r - 1].pc # "idle"
  /\ requests' =
       [q \in 1..MaxRequests |->
          IF q = r
          THEN [IdleRequest EXCEPT !.pc = "fetching",
                                   !.assistantMessageId = AssistantMessageId(r),
                                   !.sessionId = NullId]
          ELSE IF q = abortControllerRef THEN [requests[q] EXCEPT !.aborted = TRUE]
          ELSE requests[q]]
  /\ abortControllerRef' = r
  /\ messages' = messages \o <<UserMessage(r), AssistantMessage(r)>>
  /\ isLoading' = TRUE
  /\ error' = NullError
  /\ UNCHANGED <<sessionId, onErrorCalls, streamVars, otherVars>>

(* a slip in sendMessage: the controller in the ref is replaced without
   being aborted *)
SendMessageNoAbort(r) ==
  /\ requests[r].pc = "idle"
  /\ IF r = 1 THEN TRUE ELSE requests[r - 1].pc # "idle"
  /\ requests' = [requests EXCEPT
                    ![r] = [IdleRequest EXCEPT !.pc = "fetching",
                                               !.assistantMessageId = AssistantMessageId(r),
                                               !.sessionId = sessionId]]
  /\ abortControllerRef' = r
  /\ messages' = messages \o <<UserMessage(r), AssistantMessage(r)>>
  /\ isLoading' = TRUE
  /\ error' = NullError
  /\ UNCHANGED <<sessionId, onErrorCalls, streamVars, otherVars>>

(* sendMessage up to the await of fetch: abort the request the ref holds,
   take a new controller, add the two messages *)
SendMessage(r) ==
  /\ requests[r].pc = "idle"
  /\ IF r = 1 THEN TRUE ELSE requests[r - 1].pc # "idle"
  /\ requests' =
       [q \in 1..MaxRequests |->
          IF q = r
          THEN [IdleRequest EXCEPT !.pc = "fetching",
                                   !.assistantMessageId = AssistantMessageId(r),
                                   !.sessionId = sessionId]
          ELSE IF q = abortControllerRef THEN [requests[q] EXCEPT !.aborted = TRUE]
          ELSE requests[q]]
  /\ abortControllerRef' = r
  /\ messages' = messages \o <<UserMessage(r), AssistantMessage(r)>>
  /\ isLoading' = TRUE
  /\ error' = NullError
  /\ UNCHANGED <<sessionId, onErrorCalls, streamVars, otherVars>>

(* sendMessage returned: its locals and its response are gone, what stays
   is how it ended, its controller and the id of its message *)
Returned(req, how) ==
  [IdleRequest EXCEPT !.pc = how, !.aborted = req.aborted,
                      !.assistantMessageId = req.assistantMessageId]

(* fetch resolves with an ok response that has a body: the reader and the
   locals of the read loop *)
FetchResolve(r, resp) ==
  /\ requests[r].pc = "fetching"
  /\ ~requests[r].aborted
  /\ requests' = [requests EXCEPT ![r].pc = "reading",
                                  ![r].snaps = resp.snaps,
                                  ![r].thrown = resp.thrown,
                                  ![r].lines = resp.lines]
  /\ UNCHANGED <<messages, isLoading, error, sessionId, abortControllerRef, onErrorCalls,
                 streamVars, otherVars>>

(* the catch block for an error that is not an AbortError *)
CatchError(r, errorMessage) ==
  /\ requests' = [requests EXCEPT ![r] = Returned(@, "failed")]
  /\ messages' = SetFailed(messages, requests[r].assistantMessageId, errorMessage)
  /\ isLoading' = FALSE
  /\ error' = errorMessage
  /\ onErrorCalls' = onErrorCalls + 1
  /\ UNCHANGED <<sessionId, abortControllerRef, streamVars, otherVars>>

(* fetch rejects, or resolves with a response that is not ok *)
FetchFail(r, errorMessage) ==
  /\ requests[r].pc = "fetching"
  /\ ~requests[r].aborted
  /\ CatchError(r, errorMessage)

(* a slip in the catch block: an AbortError is handled like any other error *)
AbortObservedAsError(r) ==
  /\ requests[r].pc \in {"fetching", "reading"}
  /\ requests[r].aborted
  /\ CatchError(r, <<"The user aborted a request.">>)

(* the pending fetch or read of an aborted request rejects with an
   AbortError: the catch block returns *)
AbortObserved(r) ==
  /\ requests[r].pc \in {"fetching", "reading"}
  /\ requests[r].aborted
  /\ requests' = [requests EXCEPT ![r] = Returned(@, "aborted")]
  /\ UNCHANGED <<messages, isLoading, error, sessionId, abortControllerRef, onErrorCalls,
                 streamVars, otherVars>>

(* reader.read() resolves with a chunk that completes n lines and, if
   partial, ends inside the next one, which stays in the buffer *)
ReadChunk(r, n, partial) ==
  LET req == requests[r]
      st == HandleLines([accumulatedContent |-> req.accumulatedContent,
                         metadata |-> req.metadata, messages |-> messages,
                         error |-> error, sessionId |-> sessionId],
                        req.assistantMessageId,
                        SubSeq(req.lines, req.delivered + 1, req.delivered + n))
  IN /\ req.pc = "reading"
     /\ ~req.aborted
     /\ req.delivered + n <= Len(req.lines)
     /\ partial => req.delivered + n < Len(req.lines)
     /\ n >= 1 \/ (partial /\ req.buffer = <<>>)
     /\ requests' = [requests EXCEPT
                       ![r].delivered = req.delivered + n,
                       ![r].buffer = IF partial THEN <<"data: ">> ELSE <<>>,
                       ![r].accumulatedContent = st.accumulatedContent,
                       ![r].metadata = st.metadata]
     /\ messages' = st.messages
     /\ error' = st.error
     /\ sessionId' = st.sessionId
     /\ UNCHANGED <<isLoading, abortControllerRef, onErrorCalls, streamVars, otherVars>>

(* a slip behind the read loop: the message is marked complete and
   isLoading is left as it is *)
ReadEndStillLoading(r) ==
  /\ requests[r].pc = "reading"
  /\ ~requests[r].aborted
  /\ requests[r].delivered = Len(requests[r].lines)
  /\ requests[r].buffer = <<>>
  /\ requests' = [requests EXCEPT ![r] = Returned(@, "finished")]
  /\ messages' = SetNotStreaming(messages, requests[r].assistantMessageId)
  /\ UNCHANGED <<isLoading, error, sessionId, abortControllerRef, onErrorCalls, streamVars, otherVars>>

(* reader.read() resolves with done after the route closed the stream: the
   buffer is empty behind the last line, the message is marked complete *)
ReadEnd(r) ==
  /\ requests[r].pc = "reading"
  /\ ~requests[r].aborted
  /\ requests[r].delivered = Len(requests[r].lines)
  /\ requests[r].buffer = <<>>
  /\ requests' = [requests EXCEPT ![r] = Returned(@, "finished")]
  /\ messages' = SetNotStreaming(messages, requests[r].assistantMessageId)
  /\ isLoading' = FALSE
  /\ UNCHANGED <<error, sessionId, abortControllerRef, onErrorCalls, streamVars, otherVars>>

(* reader.read() rejects with an error that is not an AbortError *)
ReadFail(r) ==
  /\ requests[r].pc = "reading"
  /\ ~requests[r].aborted
  /\ CatchError(r, ReadErrorMessage)

NextChat ==
  \E r \in 1..MaxRequests :
    \/ SendMessage(r)
    \/ \E resp \in Responses : FetchResolve(r, resp)
    \/ \E m \in FetchErrorMessages : FetchFail(r, m)
    \/ AbortObserved(r)
    \/ \E n \in 0..4, partial \in BOOLEAN : ReadChunk(r, n, partial)
    \/ ReadEnd(r)
    \/ ReadFail(r)

(* the hook alone: no run of streamAnswer is stepped, its events come with
   the responses *)
InitChat == InitWith({<<>>}, {<<>>}, {<<>>}, {<<>>})

SpecChat == InitChat /\ [][NextChat]_vars

(* the event loop runs every continuation that is ready and the transport
   delivers or fails: no enabled step is put off for ever *)
SpecChatFair == SpecChat /\ WF_vars(NextChat)

(* ----------------------- request isolation in useChat ------------------ *)

(* the requests sendMessage was called for *)
Started == {r \in 1..MaxRequests : requests[r].pc # "idle"}

(* the messages a request's updates reach: those with its assistantMessageId *)
MessagesOf(r) ==
  {i \in 1..Len(messages) : messages[i].id = requests[r].assistantMessageId}

(* a step of request r: its record changed *)
StepOf(r) == requests'[r] # requests[r]

(* C17: request isolation in useChat.  Every request sendMessage was called
   for has exactly one assistant message and shares it with no other
   request; while a request reads its response, the content and metadata of
   its message are those of its own accumulator; a step changes the content
   or metadata of a request's message only if it is a step of that request
   and the request is not aborted; and a step of a superseded (aborted)
   request changes no message at all. *)
C17_RequestIsolation ==
  /\ [](\A r \in Started :
          /\ Cardinality(MessagesOf(r)) = 1
          /\ \A q \in Started \ {r} : MessagesOf(q) \cap MessagesOf(r) = {}
          /\ requests[r].pc = "reading" =>
               \A i \in MessagesOf(r) :
                 /\ messages[i].content = requests[r].accumulatedContent
                 /\ messages[i].metadata = requests[r].metadata)
  /\ [][\A r \in Started :
          /\ \A i \in MessagesOf(r) :
               (\/ messages'[i].content # messages[i].content
                \/ messages'[i].metadata # messages[i].metadata)
                 => StepOf(r) /\ ~requests[r].aborted
          /\ (StepOf(r) /\ requests[r].aborted) => messages' = messages]_vars

(* the first request was superseded after it had shown a replaced answer
   and has not yet seen its abort, and the second request shows the first
   text of its own answer *)
C17_Witness ==
  /\ MaxRequests >= 2
  /\ requests[1].pc = "reading" /\ requests[1].aborted
  /\ requests[2].pc = "reading" /\ requests[2].delivered = 1
  /\ Len(messages) = 4
  /\ messages[2].content = <<"b", "a">>
  /\ messages[4].content = <<"a">>

(* ----------------------- consumer rendering in useChat ----------------- *)

IsContentLine(line) == line.kind = "content"

IsErrorLine(line) == line.kind = "error"

Yields(entry) == entry.out # <<>>

(* the objects of a run of streamAnswer over snaps that yielded a chunk *)
YieldingEntries(snaps) == SelectSeq(CleanRun(snaps).trace, Yields)

(* the lines of its response request r has handled *)
DeliveredLines(r) == SubSeq(requests[r].lines, 1, requests[r].delivered)

(* C18: consumer rendering in useChat.  A content line without the replace
   flag sets the content of the request's assistant message to its previous
   content followed by the line's text, a content line with replace = true
   sets it to exactly the line's text; so, as long as no error line was
   handled, the content shown after the k-th chunk event of streamAnswer
   was forwarded and applied is streamAnswer's lastAnswerText behind the
   object that yielded that event, and after the last chunk event it is the
   lastAnswerText streamAnswer ended with. *)
C18_ConsumerRendering ==
  /\ [](\A r \in Started :
          (requests[r].pc = "reading" /\ SelectSeq(DeliveredLines(r), IsErrorLine) = <<>>)
            => LET k == Len(SelectSeq(DeliveredLines(r), IsContentLine))
                   ys == YieldingEntries(requests[r].snaps)
               IN \A i \in MessagesOf(r) :
                    /\ k <= Len(ys)
                    /\ messages[i].content = IF k = 0 THEN <<>> ELSE ys[k].after
                    /\ k = Len(ys) =>
                         messages[i].content = CleanRun(requests[r].snaps).r.lastAnswerText)
  /\ [][\A r \in Started :
          (/\ requests[r].pc = "reading" /\ requests'[r].pc = "reading"
           /\ requests'[r].delivered = requests[r].delivered + 1
           /\ IsContentLine(requests[r].lines[requests'[r].delivered]))
            => LET line == requests[r].lines[requests'[r].delivered]
               IN \A i \in MessagesOf(r) :
                    messages'[i].content =
                      IF line.replace THEN line.content
                      ELSE messages[i].content \o line.content]_vars

(* the final answer differed from the text streamed before it: the replace
   line was applied behind the streamed text and the message shows the
   final answer alone *)
C18_Witness ==
  /\ requests[1].pc = "reading"
  /\ requests[1].snaps = <<Answer("STREAMING", <<"a">>), Answer("SUCCEEDED", <<"b", "a">>)>>
  /\ Len(SelectSeq(DeliveredLines(1), IsContentLine)) = 2
  /\ DeliveredLines(1)[2] = ContentLine(<<"b", "a">>, TRUE)
  /\ messages[2].content = <<"b", "a">>

(* ------------------------------ completion ----------------------------- *)

(* the whole response of request r was handled, its [DONE] line included *)
DoneDelivered(r) ==
  /\ requests[r].delivered = Len(requests[r].lines)
  /\ requests[r].lines # <<>>
  /\ requests[r].lines[Len(requests[r].lines)] = DoneLine

(* C19: completion.  A request ends as finished only by the end of its
   response stream behind its delivered done line, and that step sets
   isStreaming of the request's assistant message and the hook's isLoading
   to false; the message of a finished request stays not streaming, and
   isLoading stays false while the request is not aborted; and every request
   that is not aborted and has its done line delivered eventually is
   finished, unless a read fails or a newer request aborts it first. *)
C19_Completion ==
  /\ [](\A r \in Started :
          requests[r].pc = "finished"
            => /\ \A i \in MessagesOf(r) : ~messages[i].isStreaming
               /\ ~requests[r].aborted => ~isLoading)
  /\ [][\A r \in Started :
          (requests[r].pc # "finished" /\ requests'[r].pc = "finished")
            => /\ requests[r].pc = "reading" /\ ~requests[r].aborted
               /\ DoneDelivered(r)
               /\ ~isLoading'
               /\ \A i \in MessagesOf(r) : ~messages'[i].isStreaming]_vars
  /\ \A r \in 1..MaxRequests :
       (requests[r].pc = "reading" /\ ~requests[r].aborted /\ DoneDelivered(r))
         ~> (\/ /\ requests[r].pc = "finished"
                /\ \A i \in MessagesOf(r) : ~messages[i].isStreaming
             \/ requests[r].pc = "failed"
             \/ requests[r].aborted)

(* the second request streamed its answer to the end and finished while
   isLoading was true for it; nothing is loading any more *)
C19_Witness ==
  /\ MaxRequests >= 2
  /\ requests[2].pc = "finished" /\ ~requests[2].aborted
  /\ messages[4].content = <<"b", "a">>
  /\ ~messages[4].isStreaming
  /\ ~isLoading

(* -------------------------- user-visible failure ----------------------- *)

(* the lines request r handles in this step *)
HandledNow(r) ==
  SubSeq(requests[r].lines, requests[r].delivered + 1, requests'[r].delivered)

(* C20: user-visible failure.  When the fetch or a read of a request fails
   with an error that is not an abort, the step that ends the request as
   failed sets state.error to the error's message, replaces the content of
   the request's assistant message by the sentence built around that
   message, sets its isStreaming to false and sets isLoading to false, and
   the message stays so.  When the route forwards an error event, handling
   it replaces the content of the message by the event's text and sets
   state.error to it, and the end of that response leaves this text and
   state.error in place and sets isStreaming and isLoading to false. *)
C20_UserVisibleFailure ==
  /\ [](\A r \in Started :
          requests[r].pc = "failed"
            => /\ \A i \in MessagesOf(r) :
                    /\ ~messages[i].isStreaming
                    /\ \E m \in FetchErrorMessages \cup {ReadErrorMessage} :
                         messages[i].content = CatchErrorText(m)
               /\ ~requests[r].aborted => (~isLoading /\ error # NullError))
  /\ [][\A r \in Started :
          /\ (requests[r].pc # "failed" /\ requests'[r].pc = "failed")
               => /\ ~requests[r].aborted
                  /\ error' \in FetchErrorMessages \cup {ReadErrorMessage}
                  /\ ~isLoading'
                  /\ \A i \in MessagesOf(r) :
                       /\ messages'[i].content =
                            <<"Sorry, I encountered an error: ">> \o error'
                              \o <<". Please try again.">>
                       /\ ~messages'[i].isStreaming
          /\ (/\ requests[r].pc = "reading" /\ requests'[r].pc = "reading"
              /\ SelectSeq(HandledNow(r), IsErrorLine) # <<>>)
               => LET line == SelectSeq(HandledNow(r), IsErrorLine)[1]
                  IN /\ line.content = RouteErrorText(UpstreamErrorMessage)
                     /\ error' = line.content
                     /\ \A i \in MessagesOf(r) : messages'[i].content = line.content
          /\ (/\ requests[r].pc = "reading" /\ requests'[r].pc = "finished"
              /\ SelectSeq(requests[r].lines, IsErrorLine) # <<>>)
               => /\ error' = RouteErrorText(UpstreamErrorMessage)
                  /\ ~isLoading'
                  /\ \A i \in MessagesOf(r) :
                       /\ messages'[i].content = RouteErrorText(UpstreamErrorMessage)
                       /\ ~messages'[i].isStreaming]_vars

(* the first request showed a text, then the route's error event in its
   place, and ended; the second request failed in fetch: both messages show
   an error sentence, neither is streaming, nothing is loading *)
C20_Witness ==
  /\ MaxRequests >= 2
  /\ requests[1].pc = "finished"
  /\ requests[2].pc = "failed"
  /\ Len(messages) = 4
  /\ messages[2].content = RouteErrorText(UpstreamErrorMessage)
  /\ messages[4].content = CatchErrorText(<<"Failed to fetch">>)
  /\ ~messages[2].isStreaming /\ ~messages[4].isStreaming
  /\ ~isLoading
  /\ error = <<"Failed to fetch">>

(* ------------- useChat: cancelRequest, clearMessages, loadSession ------- *)

(* cancelRequest with a controller in the ref: abort it, clear isLoading
   and the isStreaming mark of every message.  Without a controller the
   call does nothing. *)
CancelRequest ==
  /\ abortControllerRef # 0
  /\ requests' = [requests EXCEPT ![abortControllerRef].aborted = TRUE]
  /\ isLoading' = FALSE
  /\ messages' = [i \in 1..Len(messages) |->
                    IF messages[i].isStreaming
                    THEN [messages[i] EXCEPT !.isStreaming = FALSE]
                    ELSE messages[i]]
  /\ UNCHANGED <<error, sessionId, abortControllerRef, onErrorCalls, streamVars, otherVars>>

(* clearMessages: abort the controller in the ref, if any, and start from
   the empty state *)
ClearMessages ==
  /\ requests' = IF abortControllerRef # 0
                 THEN [requests EXCEPT ![abortControllerRef].aborted = TRUE]
                 ELSE requests
  /\ messages' = <<>>
  /\ isLoading' = FALSE
  /\ error' = NullError
  /\ sessionId' = NullId
  /\ UNCHANGED <<abortControllerRef, onErrorCalls, streamVars, otherVars>>

\* a stored conversation and its session id, as the caller of loadSession
\* passes them: ids of their own, no message streaming
StoredSessionId == <<"9">>

StoredMessages ==
  <<[id |-> 101, role |-> "user", content |-> <<"question">>,
     isStreaming |-> FALSE, metadata |-> <<>>],
    [id |-> 102, role |-> "assistant", content |-> <<"a">>,
     isStreaming |-> FALSE, metadata |-> <<>>]>>

(* loadSession: the state is replaced; the controller in the ref is left alone *)
LoadSession(sid, msgs) ==
  /\ messages' = msgs
  /\ isLoading' = FALSE
  /\ error' = NullError
  /\ sessionId' = sid
  /\ UNCHANGED <<abortControllerRef, requests, onErrorCalls, streamVars, otherVars>>

\* the responses met here: an answer that brings a session id and metadata,
\* and one cut short by the route's error event
HookResponses ==
  {Response(<<Answer("STREAMING", <<"a">>), FullSnapshot>>, FALSE),
   Response(<<Answer("STREAMING", <<"a">>)>>, TRUE)}

(* the steps of the calls of sendMessage, the response read in chunks of
   whole lines, and the three other operations *)
NextHook ==
  \/ \E r \in 1..MaxRequests :
       \/ SendMessage(r)
       \/ \E resp \in HookResponses : FetchResolve(r, resp)
       \/ FetchFail(r, <<"Failed to fetch">>)
       \/ AbortObserved(r)
       \/ \E n \in 1..4 : ReadChunk(r, n, FALSE)
       \/ ReadEnd(r)
       \/ ReadFail(r)
  \/ CancelRequest
  \/ ClearMessages
  \/ LoadSession(StoredSessionId, StoredMessages)

(* the hook with all the operations it returns *)
SpecHook == InitChat /\ [][NextHook]_vars

(* ------------------------ cancellation is not an error ----------------- *)

(* the texts the hook shows for an error: the sentence of the catch block
   and the text of the route's error event *)
IsErrorText(content) ==
  /\ content # <<>>
  /\ content[1] \in {"Sorry, I encountered an error: ",
                     "I encountered an error while processing your request: "}

(* this step aborts a controller that was not aborted *)
Aborts == \E r \in 1..MaxRequests : requests'[r].aborted /\ ~requests[r].aborted

(* this step is the return of an aborted call of sendMessage *)
AbortReturns == \E r \in 1..MaxRequests : requests[r].aborted /\ StepOf(r)

(* C21: cancellation is not an error in useChat.  A step that aborts a
   request (cancelRequest, clearMessages, a superseding sendMessage) and the
   step in which an aborted request returns never set state.error to an
   error, never invoke onError and never write an error text into a
   message; onError has been invoked exactly once for every request that
   failed and never for an aborted one. *)
C21_CancellationIsNotAnError ==
  /\ [](onErrorCalls = Cardinality({r \in 1..MaxRequests : requests[r].pc = "failed"}))
  /\ [][(Aborts \/ AbortReturns)
          => /\ error' \in {error, NullError}
             /\ onErrorCalls' = onErrorCalls
             /\ \A i \in 1..Len(messages') :
                  IsErrorText(messages'[i].content)
                    => (i <= Len(messages) /\ messages[i].content = messages'[i].content)]_vars

(* cancelRequest aborted the first request while its answer was streaming
   and the request has returned: its message keeps the text it had, no
   error is set, onError was not invoked *)
C21_Witness ==
  /\ requests[1].pc = "aborted"
  /\ abortControllerRef = 1
  /\ Len(messages) = 2
  /\ messages[2].id = requests[1].assistantMessageId
  /\ messages[2].content = <<"a">>
  /\ ~messages[2].isStreaming
  /\ error = NullError /\ onErrorCalls = 0 /\ ~isLoading

(* --------------------------- session continuity ------------------------ *)

\* the session path streamAnswer builds from the sessionId the route hands
\* it, "p" standing for the engine's path and "/" for "/sessions/"
SessionPath(sid) ==
  IF sid # NullId THEN <<"p", "/">> \o sid ELSE <<"p", "/", "-">>

(* the route takes sessionId from the request body and passes it on *)
RouteSession(r) == SessionPath(requests[r].sessionId)

IsSessionLine(line) == line.kind = "metadata" /\ line.sessionId # NullId

(* C22: session continuity.  Handling a metadata line that delivers session
   id S sets the hook's sessionId to S; the hook's sessionId then changes
   only by a later metadata line, by clearMessages (to null, with the
   messages emptied) or by loadSession; every sendMessage puts the hook's
   sessionId into its request body, from which the route and streamAnswer
   build the path of session S when it is S and the path of a new session
   ("-") when it is null. *)
C22_SessionContinuity ==
  [][/\ \A r \in Started :
          (/\ requests[r].pc = "reading" /\ requests'[r].pc = "reading"
           /\ SelectSeq(HandledNow(r), IsSessionLine) # <<>>)
            => LET ls == SelectSeq(HandledNow(r), IsSessionLine)
               IN sessionId' = ls[Len(ls)].sessionId
     /\ sessionId' # sessionId
          => \/ \E r \in Started :
                  /\ requests[r].pc = "reading" /\ ~requests[r].aborted
                  /\ SelectSeq(HandledNow(r), IsSessionLine) # <<>>
             \/ sessionId' = NullId /\ messages' = <<>>
             \/ sessionId' = StoredSessionId /\ messages' = StoredMessages
     /\ \A r \in 1..MaxRequests :
          (requests[r].pc = "idle" /\ requests'[r].pc = "fetching")
            => /\ requests'[r].sessionId = sessionId
               /\ sessionId' = sessionId
               /\ sessionId # NullId
                    => /\ SessionPath(requests'[r].sessionId) = <<"p", "/">> \o sessionId
                       /\ SessionIdOf(SessionPath(requests'[r].sessionId)) = sessionId
               /\ sessionId = NullId
                    => SessionPath(requests'[r].sessionId) = <<"p", "/", "-">>]_vars

(* the first request finished after its metadata delivered session 1, and
   the follow-up question is sent in session 1 *)
C22_Witness ==
  /\ MaxRequests >= 2
  /\ requests[1].pc = "finished"
  /\ Len(messages) = 4
  /\ messages[2].metadata # <<>>
  /\ messages[2].metadata[1].sessionId = <<"1">>
  /\ requests[2].pc = "fetching"
  /\ requests[2].sessionId = <<"1">>
  /\ RouteSession(2) = <<"p", "/", "1">>

(* --------------------------- stale streaming marks --------------------- *)

(* a call of sendMessage that has not returned *)
InFlight == {r \in 1..MaxRequests : requests[r].pc \in {"fetching", "reading"}}

(* C25: once no request is in flight and isLoading is false, no message is
   marked as streaming; in particular not the assistant message of a
   request that a later sendMessage superseded. *)
C25_NoStaleStreaming ==
  (InFlight = {} /\ ~isLoading)
    => \A i \in 1..Len(messages) : ~messages[i].isStreaming

(* ------------------------- one un-aborted request ---------------------- *)

(* the requests whose AbortController was not aborted *)
Unaborted == {r \in Started : ~requests[r].aborted}

(* C28: at most one chat request is un-aborted at any time, and it is the
   one whose controller the ref holds; the step of sendMessage that starts
   a request aborts every controller made before it; after cancelRequest or
   clearMessages aborted the controller in the ref no request is
   un-aborted. *)
C28_OneUnabortedRequest ==
  /\ [](/\ Cardinality(Unaborted) <= 1
        /\ \A r \in Unaborted : abortControllerRef = r)
  /\ [][/\ \A r \in 1..MaxRequests :
             (requests[r].pc = "idle" /\ requests'[r].pc = "fetching")
               => \A q \in Started : requests'[q].aborted
        /\ (abortControllerRef' = abortControllerRef /\ abortControllerRef # 0
            /\ requests'[abortControllerRef].aborted)
             => \A q \in Started : requests'[q].aborted]_vars

(* the second request superseded the first, which is still pending, and was
   then cancelled while streaming: both pending calls are aborted *)
C28_Witness ==
  /\ MaxRequests >= 2
  /\ requests[1].pc = "reading" /\ requests[1].aborted
  /\ requests[2].pc = "reading" /\ requests[2].aborted
  /\ abortControllerRef = 2
  /\ Unaborted = {}
  /\ ~isLoading

(* ------------------------------ parseCitations ------------------------- *)

\* the characters of the texts parsed: the brackets, two digits, a letter
CitationChars == {"[", "]", "1", "2", "x"}

RECURSIVE TextsOfLength(_)
TextsOfLength(n) ==
  IF n = 0 THEN {<<>>}
  ELSE {Append(t, c) : t \in TextsOfLength(n - 1), c \in CitationChars}

CitationTexts == UNION {TextsOfLength(n) : n \in 0..MaxText}

\* \d of a JavaScript regular expression
DigitValue == [c \in {"0", "1", "2", "3", "4", "5", "6", "7", "8", "9"} |->
                 CASE c = "0" -> 0 [] c = "1" -> 1 [] c = "2" -> 2 [] c = "3" -> 3
                   [] c = "4" -> 4 [] c = "5" -> 5 [] c = "6" -> 6 [] c = "7" -> 7
                   [] c = "8" -> 8 [] c = "9" -> 9]

IsDigit(c) == c \in DOMAIN DigitValue

(* parseInt(digits, 10) of a run of digits *)
RECURSIVE ParseInt(_)
ParseInt(ds) ==
  IF ds = <<>> THEN 0
  ELSE 10 * ParseInt(SubSeq(ds, 1, Len(ds) - 1)) + DigitValue[ds[Len(ds)]]

(* the offset behind the digits that start at offset j *)
RECURSIVE DigitsEnd(_, _)
DigitsEnd(txt, j) ==
  IF j < Len(txt) /\ IsDigit(txt[j + 1]) THEN DigitsEnd(txt, j + 1) ELSE j

(* the offset behind a match of \[(\d+)\] that starts at offset i, or -1 *)
MatchEnd(txt, i) ==
  IF i < Len(txt) /\ txt[i + 1] = "["
  THEN LET e == DigitsEnd(txt, i + 1)
       IN IF e > i + 1 /\ e < Len(txt) /\ txt[e + 1] = "]" THEN e + 1 ELSE -1
  ELSE -1

(* a slip in the pattern: \[(\d)\], one digit only *)
ExecOneDigit(txt, from) ==
  LET starts == {i \in from..(Len(txt) - 1) :
                   MatchEnd(txt, i) # -1 /\ MatchEnd(txt, i) = i + 3}
  IN IF starts = {} THEN [found |-> FALSE, index |-> -1, end |-> -1]
     ELSE LET i == CHOOSE i \in starts : \A k \in starts : i <= k
          IN [found |-> TRUE, index |-> i, end |-> MatchEnd(txt, i)]

(* citationRegex.exec(text) with lastIndex = from: the leftmost match *)
Exec(txt, from) ==
  LET starts == {i \in from..(Len(txt) - 1) : MatchEnd(txt, i) # -1}
  IN IF starts = {} THEN [found |-> FALSE, index |-> -1, end |-> -1]
     ELSE LET i == CHOOSE i \in starts : \A k \in starts : i <= k
          IN [found |-> TRUE, index |-> i, end |-> MatchEnd(txt, i)]

TextPart(content) == [type |-> "text", content |-> content, citationNumber |-> -1]

CitationPart(content, n) == [type |-> "citation", content |-> content, citationNumber |-> n]

(* parseCitations is called with a text *)
ParseCitations(txt) ==
  /\ citation.pc = "idle"
  /\ citation' = [pc |-> "loop", text |-> txt, parts |-> <<>>, lastIndex |-> 0]
  /\ UNCHANGED <<streamVars, chatVars, route, ketcher>>

(* one turn of the while loop: a match, the text before it, the citation *)
CitationMatch ==
  LET m == Exec(citation.text, citation.lastIndex)
      before == IF m.index > citation.lastIndex
                THEN <<TextPart(Slice(citation.text, citation.lastIndex, m.index))>>
                ELSE <<>>
      matched == Slice(citation.text, m.index, m.end)
  IN /\ citation.pc = "loop"
     /\ m.found
     /\ citation' = [citation EXCEPT
                       !.parts = @ \o before
                                   \o <<CitationPart(matched,
                                          ParseInt(SubSeq(matched, 2, Len(matched) - 1)))>>,
                       !.lastIndex = m.end]
     /\ UNCHANGED <<streamVars, chatVars, route, ketcher>>

(* exec returns null: the rest of the text, and the parts are returned *)
CitationReturn ==
  /\ citation.pc = "loop"
  /\ ~Exec(citation.text, citation.lastIndex).found
  /\ citation' = [citation EXCEPT
                    !.parts = IF citation.lastIndex < Len(citation.text)
                              THEN Append(@, TextPart(SliceFrom(citation.text,
                                                                citation.lastIndex)))
                              ELSE @,
                    !.pc = "returned"]
  /\ UNCHANGED <<streamVars, chatVars, route, ketcher>>

NextCite ==
  \/ citation.pc = "idle" /\ \E txt \in CitationTexts : ParseCitations(txt)
  \/ CitationMatch
  \/ CitationReturn

SpecCite == InitChat /\ [][NextCite]_vars

(* the contents of the parts, one behind the other *)
RECURSIVE JoinParts(_)
JoinParts(ps) == IF ps = <<>> THEN <<>> ELSE Head(ps).content \o JoinParts(Tail(ps))

(* "[", one or more digits, "]" *)
IsCitationText(c) ==
  /\ Len(c) >= 3
  /\ c[1] = "[" /\ c[Len(c)] = "]"
  /\ \A k \in 2..(Len(c) - 1) : c[k] \in {"0", "1", "2", "3", "4", "5", "6", "7", "8", "9"}

(* the decimal value of a run of digits "1" and "2", digit by digit *)
RECURSIVE DecimalValue(_)
DecimalValue(ds) ==
  IF ds = <<>> THEN 0
  ELSE (IF Head(ds) = "1" THEN 1 ELSE 2) * 10 ^ (Len(ds) - 1) + DecimalValue(Tail(ds))

(* C23: parseCitations partitions its input.  The contents of the returned
   parts, joined in order, are the input; a part of type citation is "["
   digits "]" and its citationNumber is the decimal value of the digits; a
   part of type text is not empty and holds no "[" digits "]" anywhere,
   so every such occurrence is a citation part and bracketed text without
   digits stays in a text part; no two text parts are adjacent; the empty
   string gives the empty list. *)
C23_ParseCitationsPartitions ==
  citation.pc = "returned"
    => LET ps == citation.parts
       IN /\ JoinParts(ps) = citation.text
          /\ citation.text = <<>> => ps = <<>>
          /\ \A i \in 1..Len(ps) :
               /\ ps[i].type \in {"text", "citation"}
               /\ ps[i].type = "citation"
                    => /\ IsCitationText(ps[i].content)
                       /\ ps[i].citationNumber =
                            DecimalValue(SubSeq(ps[i].content, 2, Len(ps[i].content) - 1))
               /\ ps[i].type = "text"
                    => /\ ps[i].content # <<>>
                       /\ \A a \in 1..Len(ps[i].content), b \in 1..Len(ps[i].content) :
                            ~IsCitationText(SubSeq(ps[i].content, a, b))
                       /\ i < Len(ps) => ps[i + 1].type = "citation"

(* a bracket that opens no citation stays text, the citation behind it is a
   part with the value of its two digits *)
C23_Witness ==
  /\ citation.pc = "returned"
  /\ citation.text = <<"]", "[", "2", "1", "]">>
  /\ citation.parts = <<TextPart(<<"]">>), CitationPart(<<"[", "2", "1", "]">>, 21)>>

(* ------------------------------ useKetcherAPI -------------------------- *)

\* the Ketcher method exportStructure calls for a format; "none" for a
\* format the switch does not know
ExportMethod(format) ==
  CASE format = "smiles" -> "getSmiles"
    [] format = "smiles-extended" -> "getSmiles"
    [] format = "molfile" -> "getMolfile"
    [] format = "molfile-v3000" -> "getMolfile"
    [] format = "rxn" -> "getRxn"
    [] format = "ket" -> "getKet"
    [] format = "smarts" -> "getSmarts"
    [] format = "cml" -> "getCml"
    [] format = "sdf" -> "getSdf"
    [] format = "inchi" -> "getInchi"
    [] format = "inchi-key" -> "getInchiKey"
    [] OTHER -> "none"

Formats ==
  {"smiles", "smiles-extended", "molfile", "molfile-v3000", "rxn", "ket", "smarts",
   "cml", "sdf", "inchi", "inchi-key", "unsupported"}

\* what the Ketcher method does when it is called: it gives its value, or
\* it throws (a rejected promise for the asynchronous ones)
KetcherBehaviours == {"value", "throws"}

(* how a call ended for its caller *)
Outcome(touched, outcome, value) ==
  [touched |-> touched, outcome |-> outcome, value |-> value]

(* exportStructure: null without Ketcher; the method's value; null when the
   format is not known or the method rejects, both caught *)
ExportStructure(ref, format, k) ==
  IF ~ref THEN Outcome("none", "returned", "null")
  ELSE IF ExportMethod(format) = "none" THEN Outcome("none", "returned", "null")
  ELSE IF k = "throws" THEN Outcome(ExportMethod(format), "returned", "null")
  ELSE Outcome(ExportMethod(format), "returned", "structure")

(* hasReaction and hasQuery: false without Ketcher, else whatever the
   Ketcher method does; there is no try around the call *)
HasReaction(ref, k) ==
  IF ~ref THEN Outcome("none", "returned", "false")
  ELSE IF k = "throws" THEN Outcome("containsReaction", "thrown", "error")
  ELSE Outcome("containsReaction", "returned", "boolean")

HasQuery(ref, k) ==
  IF ~ref THEN Outcome("none", "returned", "false")
  ELSE IF k = "throws" THEN Outcome("isQueryStructureSelected", "thrown", "error")
  ELSE Outcome("isQueryStructureSelected", "returned", "boolean")

GenerateImage(ref, k) ==
  IF ~ref THEN Outcome("none", "returned", "null")
  ELSE IF k = "throws" THEN Outcome("generateImage", "returned", "null")
  ELSE Outcome("generateImage", "returned", "blob")

SubscribeToChanges(ref, k) ==
  IF ~ref THEN Outcome("none", "returned", "null")
  ELSE IF k = "throws" THEN Outcome("editor.subscribe", "returned", "null")
  ELSE Outcome("editor.subscribe", "returned", "subscription")

\* the operations that return nothing, and the Ketcher method of each
VoidMethod ==
  [op \in {"loadStructure", "addFragment", "applyLayout", "updateSettings"} |->
     CASE op = "loadStructure" -> "setMolecule"
       [] op = "addFragment" -> "addFragment"
       [] op = "applyLayout" -> "layout"
       [] op = "updateSettings" -> "setSettings"]

VoidOperation(ref, op) ==
  IF ~ref THEN Outcome("none", "returned", "undefined")
  ELSE Outcome(VoidMethod[op], "returned", "undefined")

(* the result of operation op with argument arg *)
KetcherResult(ref, op, arg, k) ==
  CASE op = "exportStructure" -> ExportStructure(ref, arg, k)
    [] op = "hasReaction" -> HasReaction(ref, k)
    [] op = "hasQuery" -> HasQuery(ref, k)
    [] op = "generateImage" -> GenerateImage(ref, k)
    [] op = "subscribeToChanges" -> SubscribeToChanges(ref, k)
    [] OTHER -> VoidOperation(ref, op)

KetcherOps ==
  {"hasReaction", "hasQuery", "generateImage", "subscribeToChanges"} \cup DOMAIN VoidMethod

(* initKetcher(ketcher) *)
InitKetcher ==
  /\ ~ketcher.ketcherRef
  /\ ketcher' = [ketcher EXCEPT !.ketcherRef = TRUE]
  /\ UNCHANGED <<streamVars, chatVars, route, citation>>

(* one call of an operation of the hook, Ketcher behaving as k *)
KetcherCall(op, arg, k) ==
  /\ Len(ketcher.calls) < MaxCalls
  /\ ketcher' = [ketcher EXCEPT
                   !.calls = Append(@, [op |-> op, arg |-> arg,
                                        initialised |-> ketcher.ketcherRef, k |-> k,
                                        result |-> KetcherResult(ketcher.ketcherRef,
                                                                 op, arg, k)])]
  /\ UNCHANGED <<streamVars, chatVars, route, citation>>

NextKetcher ==
  \/ InitKetcher
  \/ \E format \in Formats, k \in KetcherBehaviours : KetcherCall("exportStructure", format, k)
  \/ \E op \in KetcherOps, k \in KetcherBehaviours : KetcherCall(op, "", k)

SpecKetcher == InitChat /\ [][NextKetcher]_vars

\* the value an operation gives when there is nothing to give
NeutralValue(op) ==
  IF op \in {"exportStructure", "generateImage", "subscribeToChanges"} THEN "null"
  ELSE IF op \in {"hasReaction", "hasQuery"} THEN "false"
  ELSE "undefined"

(* C24: useKetcherAPI never throws to its caller.  No call of an operation
   ends in an exception for its caller; a call made before initKetcher
   returns its neutral value (null for exportStructure, generateImage and
   subscribeToChanges, false for hasReaction and hasQuery) without touching
   Ketcher; exportStructure returns null for a format it does not support
   and when the Ketcher call rejects. *)
C24_KetcherNeverThrows ==
  \A i \in 1..Len(ketcher.calls) :
    LET c == ketcher.calls[i]
    IN /\ c.result.outcome = "returned"
       /\ ~c.initialised
            => (c.result.touched = "none" /\ c.result.value = NeutralValue(c.op))
       /\ (c.op = "exportStructure" /\ (c.arg = "unsupported" \/ c.k = "throws"))
            => c.result.value = "null"

(* ------------------------ the displayed text grows --------------------- *)

(* C26: across the chunk events of one run of streamAnswer the text the
   consumer accumulates gets strictly longer with every chunk, replace
   chunks included: a replace chunk comes only from a snapshot whose
   answerText is longer than lastAnswerText, and its content is longer than
   the text accumulated before it. *)
C26_DisplayedTextGrows ==
  LET chunks == SelectSeq(events, IsChunk)
  IN /\ \A k \in 1..Len(chunks) :
          LET shown == Accumulate(SubSeq(chunks, 1, k - 1))
          IN /\ Len(Accumulate(SubSeq(chunks, 1, k))) > Len(shown)
             /\ chunks[k].replace => Len(chunks[k].content) > Len(shown)
     /\ \A i \in 1..Len(trace) :
          \A j \in 1..Len(trace[i].out) :
            trace[i].out[j].replace => Len(trace[i].after) > Len(trace[i].before)

(* a text, then a longer final answer that does not extend it, sent as a
   replacement, and a third snapshot that yields nothing *)
C26_Witness ==
  /\ pc = "done"
  /\ SelectSeq(events, IsChunk) = <<ChunkEvent(<<"a">>, FALSE), ChunkEvent(<<"b", "a">>, TRUE)>>
  /\ Len(trace) = 3
  /\ trace[3].out = <<>>

(* ------------------------- unmatched closing braces -------------------- *)

\* what may stand in front of an object: nothing, or one closing brace that
\* closes nothing
StrayTexts == {<<>>, <<RB>>}

(* bodies with unmatched closing braces between well-formed objects *)
InitStray == InitWith(SnapshotSeqs(PlainSnapshots, MaxObjects), {<<>>}, StrayTexts, {<<>>})

SpecStray == InitStray /\ [][Next]_vars

(* braceCount at the end of the for loop of the last read: the loop ran over
   the buffer from the last extracted object on *)
BraceCountAtEnd == ScanLoop(ScanInit(Locals), buffer).braceCount

(* C27: the brace-depth counter of the scanner is never negative, and the
   well-formed objects of a body are all extracted, in order, whatever
   unmatched closing braces stand between them. *)
C27_DepthNeverNegative ==
  /\ BraceCountAtEnd >= 0
  /\ pc = "done"
       => [i \in 1..Len(trace) |-> trace[i].json]
            = [i \in 1..Len(sent) |-> Stringify(sent[i])]

(* ------------------------------ quiet snapshots ------------------------ *)

(* bodies of quiet snapshots among snapshots that bring text *)
InitQuiet == InitWith(SnapshotSeqs(QuietFamily, MaxObjects), {<<>>}, {<<>>}, {<<>>})

SpecQuiet == InitQuiet /\ [][Next]_vars

(* the state is neither STREAMING nor SUCCEEDED, or the answerText is
   missing or empty *)
IsQuiet(snap) ==
  \/ ~({"answer", "state", "answerText"} \subseteq snap.present)
  \/ snap.state \notin {"STREAMING", "SUCCEEDED"}
  \/ snap.answerText = <<>>

(* C29: a snapshot whose state is neither STREAMING nor SUCCEEDED, or whose
   answerText is empty or missing, yields no chunk and leaves lastAnswerText
   as it was, while its session name, its non-empty relatedQuestions and its
   non-empty references are taken into the locals; when it is the last
   snapshot of the response, the metadata event carries them. *)
C29_QuietSnapshots ==
  /\ \A i \in 1..Len(trace) :
       LET snap == SnapshotAt(i)
       IN IsQuiet(snap)
            => /\ trace[i].out = <<>>
               /\ trace[i].after = trace[i].before
               /\ trace[i].rAfter.lastAnswerText = trace[i].rBefore.lastAnswerText
               /\ ("session" \in snap.present /\ snap.session # <<>>)
                    => trace[i].rAfter.extractedSessionId = <<snap.session[3]>>
               /\ ("relatedQuestions" \in snap.present /\ snap.relatedQuestions # <<>>)
                    => trace[i].rAfter.relatedQuestions = snap.relatedQuestions
               /\ ("references" \in snap.present /\ snap.references # <<>>)
                    => trace[i].rAfter.references = ExtractReferences(snap.references)
  /\ (pc = "done" /\ trace # <<>> /\ IsQuiet(SnapshotAt(Len(trace))))
       => /\ Len(events) >= 2
          /\ events[Len(events) - 1] =
               MetadataEvent(trace[Len(trace)].rAfter.extractedSessionId,
                             trace[Len(trace)].rAfter.relatedQuestions,
                             trace[Len(trace)].rAfter.references)

(* a text was sent, then a snapshot in a state that is neither STREAMING
   nor SUCCEEDED brought a longer text, a session, a related question and a
   reference: no chunk for it, and the metadata event carries what it
   brought *)
C29_Witness ==
  /\ pc = "done"
  /\ Len(trace) = 2
  /\ SnapshotAt(2).state = "FAILED"
  /\ trace[2].before = <<"a">>
  /\ lastAnswerText = <<"a">>
  /\ events = <<ChunkEvent(<<"a">>, FALSE),
                MetadataEvent(<<"3">>, << <<"r">> >>, <<[title |-> <<"z">>]>>),
                DoneEvent>>

(* ------------------------------ the chat route ------------------------- *)

\* the words of a mock response: response.split(" ") is never empty
MockWordLists == {<<"I">>, <<"I", "can">>, <<"I", "can", "see">>}

\* the answers the route forwards: a text, a final answer that replaces
\* it, a final answer with metadata
RouteSnapshots ==
  {Answer("STREAMING", <<"a">>), Answer("SUCCEEDED", <<"b", "a">>), FullSnapshot}

InitRoute == InitWith(SnapshotSeqs(RouteSnapshots, MaxObjects), {<<>>}, {<<>>}, {<<>>})

(* POST: the stream is made and start runs, with USE_VERTEX_AI set or not *)
RouteStart(useVertexAI, words) ==
  /\ route.pc = "idle"
  /\ route' = [route EXCEPT !.pc = "streaming", !.useVertexAI = useVertexAI,
                            !.words = words]
  /\ UNCHANGED <<streamVars, chatVars, ketcher, citation>>

(* the generator runs when the route asks for its next event *)
RouteGenerator ==
  /\ route.pc = "streaming" /\ route.useVertexAI
  /\ \/ \E k \in {j \in ChunkSizes : j = MaxChunk \/ j = Len(body) - pos} : Read(k)
     \/ ReadDone
     \/ ReadError

(* one turn of the for-await loop: the next event the generator yielded *)
RouteForward ==
  /\ route.pc = "streaming" /\ route.useVertexAI
  /\ route.forwarded < Len(events)
  /\ route' = [route EXCEPT !.forwarded = @ + 1,
                            !.written = @ \o ForwardEvent(events[route.forwarded + 1])]
  /\ UNCHANGED <<streamVars, chatVars, ketcher, citation>>

(* a catch block that sends the error event without the completion signal *)
RouteCatchWithoutDone ==
  /\ route.pc = "streaming" /\ route.useVertexAI
  /\ pc = "failed" /\ route.forwarded = Len(events)
  /\ route' = [route EXCEPT !.pc = "closing",
                            !.written = @ \o <<ErrorLine(RouteErrorText(UpstreamErrorMessage))>>]
  /\ UNCHANGED <<streamVars, chatVars, ketcher, citation>>

(* the generator threw behind the events it had yielded: the catch block
   sends the error event and [DONE] *)
RouteCatch ==
  /\ route.pc = "streaming" /\ route.useVertexAI
  /\ pc = "failed" /\ route.forwarded = Len(events)
  /\ route' = [route EXCEPT !.pc = "closing",
                            !.written = @ \o <<ErrorLine(RouteErrorText(UpstreamErrorMessage)),
                                               DoneLine>>]
  /\ UNCHANGED <<streamVars, chatVars, ketcher, citation>>

(* the generator returned behind its last event: the loop ends *)
RouteLoopEnd ==
  /\ route.pc = "streaming" /\ route.useVertexAI
  /\ pc = "done" /\ route.forwarded = Len(events)
  /\ route' = [route EXCEPT !.pc = "closing"]
  /\ UNCHANGED <<streamVars, chatVars, ketcher, citation>>

(* the mock path: one word, with the blank behind it unless it is the last *)
RouteMockWord ==
  /\ route.pc = "streaming" /\ ~route.useVertexAI
  /\ route.forwarded < Len(route.words)
  /\ LET i == route.forwarded + 1
         word == <<route.words[i]>> \o (IF i < Len(route.words) THEN <<" ">> ELSE <<>>)
     IN route' = [route EXCEPT !.forwarded = i,
                               !.written = Append(@, ContentLine(word, FALSE))]
  /\ UNCHANGED <<streamVars, chatVars, ketcher, citation>>

(* the mock path behind the last word: the completion signal *)
RouteMockDone ==
  /\ route.pc = "streaming" /\ ~route.useVertexAI
  /\ route.forwarded = Len(route.words)
  /\ route' = [route EXCEPT !.pc = "closing", !.written = Append(@, DoneLine)]
  /\ UNCHANGED <<streamVars, chatVars, ketcher, citation>>

(* controller.close() *)
RouteClose ==
  /\ route.pc = "closing"
  /\ route' = [route EXCEPT !.pc = "closed"]
  /\ UNCHANGED <<streamVars, chatVars, ketcher, citation>>

NextRoute ==
  \/ \E useVertexAI \in BOOLEAN, words \in MockWordLists : RouteStart(useVertexAI, words)
  \/ RouteGenerator
  \/ RouteForward
  \/ RouteCatch
  \/ RouteLoopEnd
  \/ RouteMockWord
  \/ RouteMockDone
  \/ RouteClose

SpecRoute == InitRoute /\ [][NextRoute]_vars

IsDoneLine(line) == line.kind = "[DONE]"

IsPayloadLine(line) == line.kind \in {"content", "metadata"}

IsPayloadEvent(ev) == (ev.type = "chunk" /\ ev.content # <<>>) \/ ev.type = "metadata"

(* the line that carries an event *)
LineOf(ev) ==
  IF ev.type = "chunk"
  THEN [kind |-> "content", content |-> ev.content, replace |-> ev.replace]
  ELSE [kind |-> "metadata", sessionId |-> ev.sessionId,
        relatedQuestions |-> ev.relatedQuestions, references |-> ev.references]

(* C30: every response of the chat route that is closed holds exactly one
   [DONE] marker, and at no time is anything written behind a [DONE]; this
   holds when streamAnswer completes, on the mock path, and when
   streamAnswer throws, where exactly one error event stands right before
   the [DONE]; the chunk and metadata events are forwarded in the order
   streamAnswer yielded them. *)
C30_ExactlyOneDone ==
  LET w == route.written
      payload == SelectSeq(SubSeq(events, 1, route.forwarded), IsPayloadEvent)
  IN /\ Len(SelectSeq(w, IsDoneLine)) <= 1
     /\ \A i \in 1..Len(w) : IsDoneLine(w[i]) => i = Len(w)
     /\ route.pc \in {"closing", "closed"}
          => (w # <<>> /\ IsDoneLine(w[Len(w)]))
     /\ route.pc # "idle" /\ route.useVertexAI
          => /\ SelectSeq(w, IsPayloadLine) = [i \in 1..Len(payload) |-> LineOf(payload[i])]
             /\ (route.pc \in {"closing", "closed"} /\ pc = "failed")
                  => /\ Len(SelectSeq(w, IsErrorLine)) = 1
                     /\ Len(w) >= 2 /\ IsErrorLine(w[Len(w) - 1])
             /\ pc # "failed" => SelectSeq(w, IsErrorLine) = <<>>
     /\ route.pc # "idle" /\ ~route.useVertexAI
          => /\ \A i \in 1..Len(w) : IsDoneLine(w[i]) \/ w[i].kind = "content"
             /\ route.pc \in {"closing", "closed"} => Len(w) = Len(route.words) + 1

(* streamAnswer threw behind a text it had yielded: the text, the error
   event, [DONE], and the stream is closed *)
C30_Witness ==
  /\ route.pc = "closed"
  /\ route.useVertexAI
  /\ pc = "failed"
  /\ route.written = <<ContentLine(<<"a">>, FALSE),
                       ErrorLine(RouteErrorText(UpstreamErrorMessage)), DoneLine>>

====
